---- MODULE Spec2Model ----
(***************************************************************************)
(* Verification model of the kateway core: the sub server's ack committer, *)
(* the delayed-job executor and the hinted-handoff disk service.           *)
(* Each subsystem has its own specification over the shared variables.     *)
(***************************************************************************)
EXTENDS Integers, Sequences, FiniteSets, TLC

\* ---------------------------------------------------------------- bounds
MaxSends == 2          \* ack batches the handlers send in one run
NumJobHandlers == 2    \* handler goroutines modelled (HandlerConcurrentN of them run)
DueJobsCap == 1        \* slots of the dueJobs channel modelled (the program has 200)
MaxAppends == 1        \* blocks the callers append in the service scenarios
MaxBlocks == 101       \* blocks the callers append in the drain scenarios
ClosedConnChCap == 1   \* slots of closedConnCh modelled (the program has 1<<10)
MaxSignals == 2        \* SIGINT/SIGTERM deliveries in one run
MaxFailures == 10      \* failed deliveries of one block in a row
QueuedBlocks == 3      \* blocks waiting in the queue of the back-off scenarios

\* ------------------------------------------------------- program constants
flushPerN == 4000      \* const flushPerN int64 = 4000
AckChCap == 100        \* make(chan ackOffsets, 100)
dumpPerBlocks == 100   \* consts.go
initialBackoff == 200  \* consts.go, in ms
maxBackoff == 31000    \* consts.go, in ms
defaultMaxRetries == 8 \* consts.go

VARIABLES
  \* --- sub server: ack committer and ack handlers
  shutdownCh,     \* gw.shutdownCh is closed
  ackShutdown,    \* subServer.ackShutdown (int32)
  ackCh,          \* buffered content of subServer.ackCh
  ackChClosed,    \* close(this.ackCh) has run
  ackedOffsets,   \* [cluster][topic][group][partition] -> offset
  n,              \* ackCommitter's local batch counter
  cpc,            \* ackCommitter position
  hpc,            \* position of every ack handler
  sends,          \* number of batches handed to the channel so far
  sendOnClosed,   \* a handler sent on the closed channel (runtime panic)
  closedWithRunning, \* close(this.ackCh) ran while a handler was counted in
  \* --- observations of the committer's calls (history)
  zkCalls,        \* ResetConsumerGroupOffset calls of the latest flush
  preFlush,       \* ackedOffsets at the start of the latest flush
  flushBit,       \* toggles on every commitOffsets run
  lastOp,         \* the committer's latest select case
  lastFlushed,    \* the latest select case ran commitOffsets
  acksN,          \* cumulative number of single acks received
  pendingAcks,    \* slot -> latest ack received and not yet offered to zk
  flushedLatest,  \* pendingAcks as it stood when the latest flush began
  retained,       \* slots whose commit failed (not ErrNoNode) in the latest flush
  abandoned       \* <<slot, offset>> answered ErrNoNode, no newer ack since

ackVars == <<shutdownCh, ackShutdown, ackCh, ackChClosed, ackedOffsets, n, cpc,
             hpc, sends, sendOnClosed, closedWithRunning, zkCalls, preFlush, flushBit,
             lastOp, lastFlushed, acksN, pendingAcks, flushedLatest, retained,
             abandoned>>

VARIABLES
  \* --- job executor
  dueTable,       \* rows of the due table
  historyTable,   \* rows of the history table
  dueJobs,        \* buffered content of JobExecutor.dueJobs
  stopper,        \* the stopper channel is closed
  clock,          \* wall clock, in seconds
  rpc,            \* position of Run
  pollRows,       \* rows of the current query not yet scanned
  jpc,            \* position of every handleDueJobs goroutine
  jitem,          \* the item a handler is processing
  jnow,           \* the handler's `now` for that item
  jtrail          \* what the handler's calls for that item returned (history)

jobVars == <<dueTable, historyTable, dueJobs, stopper, clock, rpc, pollRows, jpc,
             jitem, jnow, jtrail>>

VARIABLES
  \* --- hinted handoff disk service
  closed,         \* Service.closed
  queues,         \* Service.queues: clusterTopic -> the registered queue
  disk,           \* <<dir, clusterTopic>> -> blocks appended, persisted cursor
  apc,            \* position of every Service.Append caller
  act,            \* the clusterTopic of the caller's Append
  aref,           \* the queue the caller looked up: "none", "live" or "stale"
  aresult,        \* what the caller's latest Append returned
  appendLimit,    \* the callers stop appending at this many blocks
  lastCaller,     \* the caller of the latest Append
  \* --- observations of the drain (history)
  hwm,            \* <<dir, clusterTopic>> -> highest block handed to the callback
  dups,           \* <<dir, clusterTopic>> -> blocks delivered again since the restart
  gap,            \* a block was handed over before its predecessor
  \* --- observations of the service (history)
  created,        \* clusterTopic -> queues created since the service was started or stopped
  qcloses,        \* clusterTopic -> queue.Close calls since the service was started
  hhOp            \* the latest of Start, Stop, FlushInflights and crash, with its outcome

hhObs == <<created, qcloses, hhOp>>

hhVars == <<closed, queues, disk, apc, act, aref, aresult, appendLimit, lastCaller,
            hwm, dups, gap, hhObs>>

VARIABLES
  \* --- sub server connections
  connState,      \* the latest http.ConnState reported for every connection
  idlePc,         \* where a connection's StateIdle callback stands
  idleConns,      \* subServer.idleConns
  idleConnsWg,    \* counter of subServer.idleConnsWg
  activeConnN,    \* subServer.activeConnN
  closedConnCh,   \* buffered content of subServer.closedConnCh
  sockClosed,     \* connections a callback has called c.Close() on
  deadlined,      \* connections waitExit has set a read deadline on
  wpc,            \* position of waitExit
  emitted         \* connection -> sends of its address on closedConnCh (history)

connVars == <<connState, idlePc, idleConns, idleConnsWg, activeConnN, closedConnCh,
              sockClosed, deadlined, wpc, emitted>>

VARIABLES
  \* --- gateway lifecycle
  gcfg,           \* which optional components New created
  gpc,            \* position of the main goroutine in Start and ServeForever
  glog,           \* components started and stopped so far, in order (history)
  quiting,        \* Gateway.quiting is closed
  shutdownOnce,   \* Gateway.shutdownOnce has run
  quitCloses,     \* number of close(this.quiting) calls (history)
  sigs,           \* signals delivered so far
  svrClosed,      \* pub and man servers that closed their Closed channel
  shutdowns       \* number of times the stop sequence was entered (history)

gwVars == <<gcfg, gpc, glog, quiting, shutdownOnce, quitCloses, sigs, svrClosed, shutdowns>>

VARIABLES
  \* --- one ack submitted once and submitted twice, side by side
  theAck,         \* the ack the client submits
  nodeExists,     \* the coord store has the node of the ack's slot
  once,           \* the committer and coord store of the run that gets it once
  twice,          \* the committer and coord store of the run that gets it twice
  subs            \* submissions made so far

idemVars == <<theAck, nodeExists, once, twice, subs>>

VARIABLES
  \* --- one queue's drain loop with its back-off
  bkCursor,       \* blocks the cursor has passed
  bkRetries,      \* failed deliveries of the block under the cursor
  bkBackoff,      \* the wait before the next retry, in ms
  bkSlept,        \* the wait the loop took after the latest failure (0: none)
  bkAudit,        \* blocks skipped and written to the audit log
  bkLast          \* outcome of the latest delivery

bkVars == <<bkCursor, bkRetries, bkBackoff, bkSlept, bkAudit, bkLast>>

vars == <<ackVars, jobVars, hhVars, connVars, gwVars, idemVars, bkVars>>

\* the sub server's variables but the gateway's shutdownCh
ackRest == <<ackShutdown, ackCh, ackChClosed, ackedOffsets, n, cpc, hpc,
             sends, sendOnClosed, closedWithRunning, zkCalls, preFlush, flushBit,
             lastOp, lastFlushed, acksN, pendingAcks, flushedLatest, retained, abandoned>>

notAckVars == <<jobVars, hhVars, connVars, gwVars, idemVars, bkVars>>
notJobVars == <<ackVars, hhVars, connVars, gwVars, idemVars, bkVars>>
notHHVars == <<ackVars, jobVars, connVars, gwVars, idemVars, bkVars>>
notConnVars == <<jobVars, hhVars, gwVars, idemVars, bkVars, ackRest>>
notGwVars == <<jobVars, hhVars, connVars, idemVars, bkVars, ackRest>>
notIdemVars == <<ackVars, jobVars, hhVars, connVars, gwVars, bkVars>>
notBkVars == <<ackVars, jobVars, hhVars, connVars, gwVars, idemVars>>

\* ------------------------------------------------------------ name spaces
\* Cluster, topic and group names are plain strings of one universe: a topic
\* may be named like a cluster and a group like a topic.
Clusters == {"x"}
Topics == {"x", "y"}
Groups == {"y"}
Partitions == {0, 1}
Offsets == {1, 2}
Handlers == {"h1", "h2"}
ZkResults == {"ok", "nonode", "err"}

EmptyMap == [k \in {} |-> 0]

Ack(c, t, g, p, o) == [cluster |-> c, topic |-> t, group |-> g, Partition |-> p, Offset |-> o]
SlotOf(ack) == <<ack.cluster, ack.topic, ack.group, ack.Partition>>

\* One request acks offsets of one (cluster, topic, group): one ack, one ack
\* for each of the two partitions, or two successive acks of one partition.
Batches ==
  {<<Ack(c, t, g, p, o)>> : c \in Clusters, t \in Topics, g \in Groups,
                            p \in Partitions, o \in Offsets}
  \cup {<<Ack(c, t, g, 0, 1), Ack(c, t, g, 1, 1)>> :
           c \in Clusters, t \in Topics, g \in Groups}
  \cup {<<Ack(c, t, g, 0, 1), Ack(c, t, g, 0, 2)>> :
           c \in Clusters, t \in Topics, g \in Groups}

\* The requests of the shutdown scenarios: one offset, three slots.
ShutdownBatches ==
  {<<Ack("x", "y", "y", 0, 1)>>, <<Ack("x", "y", "y", 1, 1)>>, <<Ack("x", "x", "y", 0, 1)>>}

\* ------------------------------------------------- ackedOffsets as a map
Slots(ao) ==
  UNION {UNION {UNION {{<<c, t, g, p>> : p \in DOMAIN ao[c][t][g]} :
                          g \in DOMAIN ao[c][t]} :
                   t \in DOMAIN ao[c]} :
            c \in DOMAIN ao}

SlotValue(ao, s) == ao[s[1]][s[2]][s[3]][s[4]]

Pending(ao) == {s \in Slots(ao) : SlotValue(ao, s) # -1}

\* Go map lookup m[a][b]: a missing outer key yields a nil map, whose lookup
\* reports "not present".
Present2(ao, a, b) == a \in DOMAIN ao /\ b \in DOMAIN ao[a]

\* The body of `for _, ack := range acks`: returns the map and whether the
\* final assignment wrote into a nil map.
InitCluster(ao, ack) ==
  IF ack.cluster \notin DOMAIN ao THEN (ack.cluster :> EmptyMap) @@ ao ELSE ao

InitTopic(ao, ack) ==
  IF ack.topic \notin DOMAIN ao[ack.cluster]
    THEN [ao EXCEPT ![ack.cluster] = (ack.topic :> EmptyMap) @@ @]
    ELSE ao

\* line 255 indexes the first level by ack.topic
GroupPresent(ao, ack) == Present2(ao, ack.topic, ack.group)

InitGroup(ao, ack) ==
  IF ~GroupPresent(ao, ack)
    THEN [ao EXCEPT ![ack.cluster][ack.topic] = (ack.group :> EmptyMap) @@ @]
    ELSE ao

\* an assignment that adds the acked offset to what the slot holds
ApplyAckAdding(ao, ack) ==
  LET a3 == InitGroup(InitTopic(InitCluster(ao, ack), ack), ack)
  IN IF ack.group \notin DOMAIN a3[ack.cluster][ack.topic]
       THEN [ao |-> a3, panic |-> TRUE]
       ELSE LET old == IF SlotOf(ack) \in Slots(ao) THEN SlotValue(ao, SlotOf(ack)) ELSE -1
                new == IF old = -1 THEN ack.Offset ELSE old + ack.Offset
            IN [ao |-> [a3 EXCEPT ![ack.cluster][ack.topic][ack.group] =
                                     (ack.Partition :> new) @@ @],
                panic |-> FALSE]

ApplyAck(ao, ack) ==
  LET a3 == InitGroup(InitTopic(InitCluster(ao, ack), ack), ack)
  IN IF ack.group \notin DOMAIN a3[ack.cluster][ack.topic]
       THEN [ao |-> a3, panic |-> TRUE]
       ELSE [ao |-> [a3 EXCEPT ![ack.cluster][ack.topic][ack.group] =
                                   (ack.Partition :> ack.Offset) @@ @],
             panic |-> FALSE]

RECURSIVE ApplyAcks(_, _)
ApplyAcks(ao, acks) ==
  IF acks = <<>> THEN [ao |-> ao, panic |-> FALSE]
  ELSE LET r == ApplyAck(ao, Head(acks))
       IN IF r.panic THEN r ELSE ApplyAcks(r.ao, Tail(acks))

\* ------------------------------------------------------------ commitOffsets
CommitSlotKeepsNoNode(offset, res) ==
  IF offset = -1 THEN -1
  ELSE IF res = "ok" THEN -1
  ELSE offset

\* One slot of the innermost loop, given the coord store's answer.
CommitSlot(offset, res) ==
  IF offset = -1 THEN -1
  ELSE IF res = "ok" THEN -1
  ELSE IF res = "nonode" THEN -1
  ELSE offset

\* The slots for which the loop calls ResetConsumerGroupOffset.
CommitCallSlots(ao) == {s \in Slots(ao) : SlotValue(ao, s) # -1}

CommitOffsets(ao, res) ==
  [c \in DOMAIN ao |->
    [t \in DOMAIN ao[c] |->
      [g \in DOMAIN ao[c][t] |->
        [p \in DOMAIN ao[c][t][g] |->
          CommitSlot(ao[c][t][g][p],
                     IF <<c, t, g, p>> \in DOMAIN res THEN res[<<c, t, g, p>>] ELSE "ok")]]]]

RECURSIVE SetToSeq(_)
SetToSeq(S) ==
  IF S = {} THEN <<>>
  ELSE LET x == CHOOSE y \in S : TRUE IN <<x>> \o SetToSeq(S \ {x})

CallsOf(ao, res) ==
  LET order == SetToSeq(CommitCallSlots(ao))
  IN [i \in DOMAIN order |->
        [slot |-> order[i], offset |-> SlotValue(ao, order[i]), res |-> res[order[i]]]]

CallCount(calls, s) == Cardinality({i \in DOMAIN calls : calls[i].slot = s})
CalledSlots(calls) == {calls[i].slot : i \in DOMAIN calls}

\* ------------------------------------------------------- history updates
RECURSIVE NotePending(_, _)
NotePending(pa, acks) ==
  IF acks = <<>> THEN pa
  ELSE LET a == Head(acks)
           s == SlotOf(a)
           c == IF s \in DOMAIN pa THEN 2 ELSE 1
       IN NotePending((s :> [off |-> a.Offset, cnt |-> c]) @@ pa, Tail(acks))

Restrict(f, S) == [k \in (DOMAIN f) \cap S |-> f[k]]

AckedSlots(acks) == {SlotOf(acks[i]) : i \in DOMAIN acks}

\* The history after a flush of `ao` that got the answers `res`, `pa` being
\* the pending acks when it began and `ab` the abandoned commits.
FlushHistory(ao, res, pa, ab) ==
  /\ zkCalls' = CallsOf(ao, res)
  /\ preFlush' = ao
  /\ flushBit' = 1 - flushBit
  /\ flushedLatest' = pa
  /\ pendingAcks' = Restrict(pa, (DOMAIN pa) \ CommitCallSlots(ao))
  /\ retained' = {s \in CommitCallSlots(ao) : res[s] = "err"}
  /\ abandoned' = ab \cup {<<s, SlotValue(ao, s)>> : s \in {q \in CommitCallSlots(ao) : res[q] = "nonode"}}

NoFlushHistory(pa, ab) ==
  /\ pendingAcks' = pa
  /\ abandoned' = ab
  /\ UNCHANGED <<zkCalls, preFlush, flushBit, flushedLatest, retained>>

AckAlive == cpc # "panic" /\ ~sendOnClosed

\* ------------------------------------------------------------ ackCommitter
\* case <-this.gw.shutdownCh, first time: shutdownOnce.Do begins
CommitterShutdown ==
  /\ AckAlive /\ cpc = "select" /\ shutdownCh
  /\ ackShutdown' = ackShutdown - 1
  /\ cpc' = "waitHandlers"
  /\ lastOp' = "shutdown" /\ lastFlushed' = FALSE
  /\ UNCHANGED <<shutdownCh, ackCh, ackChClosed, ackedOffsets, n, hpc, sends,
                 sendOnClosed, closedWithRunning, zkCalls, preFlush, flushBit, acksN, pendingAcks,
                 flushedLatest, retained, abandoned>>
  /\ UNCHANGED notAckVars

\* if atomic.LoadInt32(&this.ackShutdown) <= -1 { break }
WaitBreak(v) == v <= -1

CommitterWaitCheck ==
  /\ AckAlive /\ cpc = "waitHandlers"
  /\ WaitBreak(ackShutdown)
  /\ cpc' = "closing"
  /\ UNCHANGED <<shutdownCh, ackShutdown, ackCh, ackChClosed, ackedOffsets, n, hpc,
                 sends, sendOnClosed, closedWithRunning, zkCalls, preFlush, flushBit, lastOp,
                 lastFlushed, acksN, pendingAcks, flushedLatest, retained, abandoned>>
  /\ UNCHANGED notAckVars

\* close(this.ackCh); the Once is done and the loop selects again
CommitterClose ==
  /\ AckAlive /\ cpc = "closing"
  /\ ackChClosed' = TRUE
  /\ closedWithRunning' = (\E h \in Handlers : hpc[h] # "idle")
  /\ cpc' = "drain"
  /\ UNCHANGED <<shutdownCh, ackShutdown, ackCh, ackedOffsets, n, hpc, sends,
                 sendOnClosed, zkCalls, preFlush, flushBit, lastOp, lastFlushed,
                 acksN, pendingAcks, flushedLatest, retained, abandoned>>
  /\ UNCHANGED notAckVars

Selecting == cpc \in {"select", "drain"}

FlushDueEarly(m) == (m + 1) % flushPerN = 0

\* n%flushPerN == 0
FlushDue(m) == m % flushPerN = 0

\* case acks, ok := <-this.ackCh with ok
CommitterRecv ==
  /\ AckAlive /\ Selecting /\ ackCh # <<>>
  /\ LET acks == Head(ackCh)
         r == ApplyAcks(ackedOffsets, acks)
         pa == NotePending(pendingAcks, acks)
         ab == {e \in abandoned : e[1] \notin AckedSlots(acks)}
     IN /\ ackCh' = Tail(ackCh)
        /\ lastOp' = "recv"
        /\ acksN' = acksN + Len(acks)
        /\ IF r.panic
             THEN /\ ackedOffsets' = r.ao
                  /\ cpc' = "panic"
                  /\ lastFlushed' = FALSE
                  /\ NoFlushHistory(pa, ab)
                  /\ UNCHANGED n
             ELSE /\ n' = n + 1
                  /\ UNCHANGED cpc
                  /\ IF FlushDue(n + 1)
                       THEN \E res \in [CommitCallSlots(r.ao) -> ZkResults] :
                              /\ ackedOffsets' = CommitOffsets(r.ao, res)
                              /\ lastFlushed' = TRUE
                              /\ FlushHistory(r.ao, res, pa, ab)
                       ELSE /\ ackedOffsets' = r.ao
                            /\ lastFlushed' = FALSE
                            /\ NoFlushHistory(pa, ab)
  /\ UNCHANGED <<shutdownCh, ackShutdown, ackChClosed, hpc, sends, sendOnClosed, closedWithRunning>>
  /\ UNCHANGED notAckVars

\* case acks, ok := <-this.ackCh with !ok: final flush and return
CommitterRecvClosed ==
  /\ AckAlive /\ Selecting /\ ackCh = <<>> /\ ackChClosed
  /\ \E res \in [CommitCallSlots(ackedOffsets) -> ZkResults] :
       /\ ackedOffsets' = CommitOffsets(ackedOffsets, res)
       /\ FlushHistory(ackedOffsets, res, pendingAcks, abandoned)
  /\ cpc' = "done"
  /\ lastOp' = "final" /\ lastFlushed' = TRUE
  /\ UNCHANGED <<shutdownCh, ackShutdown, ackCh, ackChClosed, n, hpc, sends,
                 sendOnClosed, closedWithRunning, acksN>>
  /\ UNCHANGED notAckVars

\* case <-ticker.C
CommitterTick ==
  /\ AckAlive /\ Selecting
  /\ \E res \in [CommitCallSlots(ackedOffsets) -> ZkResults] :
       /\ ackedOffsets' = CommitOffsets(ackedOffsets, res)
       /\ FlushHistory(ackedOffsets, res, pendingAcks, abandoned)
  /\ lastOp' = "tick" /\ lastFlushed' = TRUE
  /\ UNCHANGED <<shutdownCh, ackShutdown, ackCh, ackChClosed, n, cpc, hpc, sends,
                 sendOnClosed, closedWithRunning, acksN>>
  /\ UNCHANGED notAckVars

\* close(this.shutdownCh) by the gateway
SignalShutdown ==
  /\ AckAlive /\ ~shutdownCh
  /\ shutdownCh' = TRUE
  /\ UNCHANGED <<ackShutdown, ackCh, ackChClosed, ackedOffsets, n, cpc, hpc, sends,
                 sendOnClosed, closedWithRunning, zkCalls, preFlush, flushBit, lastOp, lastFlushed,
                 acksN, pendingAcks, flushedLatest, retained, abandoned>>
  /\ UNCHANGED notAckVars

\* ------------------------------------------------------------ ack handlers
\* A handler counts itself in on ackShutdown, sends its batch, counts out.
AckHandlerEnter(h) ==
  /\ AckAlive /\ hpc[h] = "idle" /\ sends < MaxSends
  /\ ackShutdown' = ackShutdown + 1
  /\ hpc' = [hpc EXCEPT ![h] = "entered"]
  /\ sends' = sends + 1
  /\ UNCHANGED <<shutdownCh, ackCh, ackChClosed, ackedOffsets, n, cpc, sendOnClosed, closedWithRunning,
                 zkCalls, preFlush, flushBit, lastOp, lastFlushed, acksN,
                 pendingAcks, flushedLatest, retained, abandoned>>
  /\ UNCHANGED notAckVars

AckHandlerSend(h, acks) ==
  /\ AckAlive /\ hpc[h] = "entered"
  /\ IF ackChClosed
       THEN /\ sendOnClosed' = TRUE
            /\ UNCHANGED <<ackCh, hpc>>
       ELSE /\ Len(ackCh) < AckChCap
            /\ ackCh' = Append(ackCh, acks)
            /\ hpc' = [hpc EXCEPT ![h] = "sent"]
            /\ UNCHANGED sendOnClosed
  /\ UNCHANGED <<shutdownCh, ackShutdown, ackChClosed, ackedOffsets, n, cpc, sends,
                 closedWithRunning, zkCalls, preFlush, flushBit, lastOp, lastFlushed, acksN,
                 pendingAcks, flushedLatest, retained, abandoned>>
  /\ UNCHANGED notAckVars

AckHandlerExit(h) ==
  /\ AckAlive /\ hpc[h] = "sent"
  /\ ackShutdown' = ackShutdown - 1
  /\ hpc' = [hpc EXCEPT ![h] = "idle"]
  /\ UNCHANGED <<shutdownCh, ackCh, ackChClosed, ackedOffsets, n, cpc, sends,
                 sendOnClosed, closedWithRunning, zkCalls, preFlush, flushBit, lastOp, lastFlushed,
                 acksN, pendingAcks, flushedLatest, retained, abandoned>>
  /\ UNCHANGED notAckVars


\* ============================================================ job executor
JobHandlers == 1..NumJobHandlers
parentId == "ctl-1"

JobItem(id, due) == [JobId |-> id, Payload |-> "payload", Ctime |-> 0, DueTime |-> due]
JobRows == {JobItem(7, 0), JobItem(8, 1)}
NoItem == [JobId |-> 0, Payload |-> "", Ctime |-> 0, DueTime |-> 0]

\* The clock runs from 0 until the last job is due.
MaxClock == CHOOSE d \in {r.DueTime : r \in JobRows} : \A r \in JobRows : r.DueTime <= d

HistoryRowNoActor(item, etime, actor) ==
  [job_id |-> item.JobId, payload |-> item.Payload, ctime |-> item.Ctime,
   due_time |-> item.DueTime, etime |-> etime, actor_id |-> ""]

\* INSERT INTO history(job_id,payload,ctime,due_time,etime,actor_id)
HistoryRow(item, etime, actor) ==
  [job_id |-> item.JobId, payload |-> item.Payload, ctime |-> item.Ctime,
   due_time |-> item.DueTime, etime |-> etime, actor_id |-> actor]

\* SELECT job_id,payload,ctime,due_time FROM table WHERE due_time<=?
DueRows(table, now) == {r \in table : r.DueTime <= now}

\* a DELETE that reports the row and leaves it in the table
DeleteJobKeepsRow(table, id) == table

\* DELETE FROM table WHERE job_id=?
DeleteJob(table, id) == {r \in table : r.JobId # id}

\* the affectedRows the DELETE reports
AffectedRows(table, id) == Cardinality({r \in table : r.JobId = id})

\* INSERT INTO table(job_id, payload, ctime, due_time): job_id is the key
InsertJob(table, item) ==
  IF \E r \in table : r.JobId = item.JobId THEN table ELSE table \cup {item}

\* --- Run
\* case now := <-tick.C, with the query's outcome
JobPollTick(queryOk) ==
  /\ rpc = "select"
  /\ IF queryOk /\ DueRows(dueTable, clock) # {}
       THEN /\ pollRows' = SetToSeq(DueRows(dueTable, clock))
            /\ rpc' = "rows"
       ELSE UNCHANGED <<pollRows, rpc>>
  /\ UNCHANGED <<dueTable, historyTable, dueJobs, stopper, clock, jpc, jitem, jnow, jtrail>>
  /\ UNCHANGED notJobVars

\* one turn of `for rows.Next()`: Scan, then this.dueJobs <- item
JobPollPush(scanOk) ==
  /\ rpc = "rows"
  /\ IF scanOk
       THEN /\ Len(dueJobs) < DueJobsCap
            /\ dueJobs' = Append(dueJobs, Head(pollRows))
       ELSE UNCHANGED dueJobs
  /\ pollRows' = Tail(pollRows)
  /\ rpc' = IF Tail(pollRows) = <<>> THEN "select" ELSE "rows"
  /\ UNCHANGED <<dueTable, historyTable, stopper, clock, jpc, jitem, jnow, jtrail>>
  /\ UNCHANGED notJobVars

\* case <-this.stopper: wg.Wait()
JobRunStop ==
  /\ rpc = "select" /\ stopper
  /\ rpc' = "wait"
  /\ UNCHANGED <<dueTable, historyTable, dueJobs, stopper, clock, pollRows, jpc,
                 jitem, jnow, jtrail>>
  /\ UNCHANGED notJobVars

JobRunReturn ==
  /\ rpc = "wait" /\ \A h \in JobHandlers : jpc[h] = "exit"
  /\ rpc' = "returned"
  /\ UNCHANGED <<dueTable, historyTable, dueJobs, stopper, clock, pollRows, jpc,
                 jitem, jnow, jtrail>>
  /\ UNCHANGED notJobVars

\* --- handleDueJobs
\* case <-this.stopper: return
JobHandlerStop(h) ==
  /\ jpc[h] = "idle" /\ stopper
  /\ jpc' = [jpc EXCEPT ![h] = "exit"]
  /\ UNCHANGED <<dueTable, historyTable, dueJobs, stopper, clock, rpc, pollRows,
                 jitem, jnow, jtrail>>
  /\ UNCHANGED notJobVars

\* case item := <-this.dueJobs: now := time.Now()
JobRecv(h) ==
  /\ jpc[h] = "idle" /\ dueJobs # <<>>
  /\ jitem' = [jitem EXCEPT ![h] = Head(dueJobs)]
  /\ jnow' = [jnow EXCEPT ![h] = clock]
  /\ dueJobs' = Tail(dueJobs)
  /\ jpc' = [jpc EXCEPT ![h] = "delete"]
  /\ jtrail' = [jtrail EXCEPT ![h] = <<>>]
  /\ UNCHANGED <<dueTable, historyTable, stopper, clock, rpc, pollRows>>
  /\ UNCHANGED notJobVars

\* `continue`: the loop's locals of this turn are dead.
Forget(h) ==
  /\ jitem' = [jitem EXCEPT ![h] = NoItem]
  /\ jnow' = [jnow EXCEPT ![h] = 0]
  /\ jtrail' = [jtrail EXCEPT ![h] = <<>>]

\* What the DELETE did for the handler.
DeleteOutcome(execOk, affectedRows) ==
  IF ~execOk THEN "deleteErr"
  ELSE IF affectedRows = 0 THEN "lostRace"
  ELSE "claimed"

AfterDeleteAlwaysPub(execOk, affectedRows) ==
  IF ~execOk THEN "idle" ELSE "pub"

\* Where the handler goes after its DELETE.
AfterDelete(execOk, affectedRows) ==
  IF ~execOk THEN "idle"
  ELSE IF affectedRows = 0 THEN "idle"
  ELSE "pub"

JobDelete(h, execOk) ==
  /\ jpc[h] = "delete"
  /\ dueTable' = IF execOk THEN DeleteJob(dueTable, jitem[h].JobId) ELSE dueTable
  /\ LET next == AfterDelete(execOk, AffectedRows(dueTable, jitem[h].JobId))
     IN /\ jpc' = [jpc EXCEPT ![h] = next]
        /\ jtrail' = [jtrail EXCEPT ![h] = <<DeleteOutcome(execOk, AffectedRows(dueTable, jitem[h].JobId))>>]
        /\ IF next = "idle"
             THEN /\ jitem' = [jitem EXCEPT ![h] = NoItem]
                  /\ jnow' = [jnow EXCEPT ![h] = 0]
             ELSE UNCHANGED <<jitem, jnow>>
  /\ UNCHANGED <<historyTable, dueJobs, stopper, clock, rpc, pollRows>>
  /\ UNCHANGED notJobVars

\* store.DefaultPubStore.SyncPub
JobPublish(h, pubOk) ==
  /\ jpc[h] = "pub"
  /\ jpc' = [jpc EXCEPT ![h] = IF pubOk THEN "archive" ELSE "hh"]
  /\ jtrail' = [jtrail EXCEPT ![h] = Append(@, IF pubOk THEN "pubOk" ELSE "pubErr")]
  /\ UNCHANGED <<dueTable, historyTable, dueJobs, stopper, clock, rpc, pollRows,
                 jitem, jnow>>
  /\ UNCHANGED notJobVars

\* hh.Default.Append after a failed publish
JobHHAppend(h, hhOk) ==
  /\ jpc[h] = "hh"
  /\ jpc' = [jpc EXCEPT ![h] = IF hhOk THEN "archive" ELSE "reinject"]
  /\ jtrail' = [jtrail EXCEPT ![h] = Append(@, IF hhOk THEN "hhOk" ELSE "hhErr")]
  /\ UNCHANGED <<dueTable, historyTable, dueJobs, stopper, clock, rpc, pollRows,
                 jitem, jnow>>
  /\ UNCHANGED notJobVars

\* this.mc.Exec(sqlReinject, ...): the result is dropped
JobReinject(h, execOk) ==
  /\ jpc[h] = "reinject"
  /\ dueTable' = IF execOk THEN InsertJob(dueTable, jitem[h]) ELSE dueTable
  /\ jpc' = [jpc EXCEPT ![h] = "idle"]
  /\ Forget(h)
  /\ UNCHANGED <<historyTable, dueJobs, stopper, clock, rpc, pollRows>>
  /\ UNCHANGED notJobVars

\* this.mc.Exec(sqlInsertArchive, ...): an error is logged
JobArchive(h, execOk) ==
  /\ jpc[h] = "archive"
  /\ historyTable' = IF execOk
                       THEN historyTable \cup {HistoryRow(jitem[h], jnow[h], parentId)}
                       ELSE historyTable
  /\ jpc' = [jpc EXCEPT ![h] = "idle"]
  /\ Forget(h)
  /\ UNCHANGED <<dueTable, dueJobs, stopper, clock, rpc, pollRows>>
  /\ UNCHANGED notJobVars

\* --- environment
JobClockTick ==
  /\ clock < MaxClock
  /\ clock' = clock + 1
  /\ UNCHANGED <<dueTable, historyTable, dueJobs, stopper, rpc, pollRows, jpc, jitem, jnow, jtrail>>
  /\ UNCHANGED notJobVars

JobSignalStop ==
  /\ ~stopper
  /\ stopper' = TRUE
  /\ UNCHANGED <<dueTable, historyTable, dueJobs, clock, rpc, pollRows, jpc, jitem, jnow, jtrail>>
  /\ UNCHANGED notJobVars

InitJob ==
  /\ dueTable = JobRows /\ historyTable = {} /\ dueJobs = <<>> /\ stopper = FALSE
  /\ clock = 0 /\ rpc = "select" /\ pollRows = <<>>
  /\ jpc = [h \in JobHandlers |-> "idle"]
  /\ jitem = [h \in JobHandlers |-> NoItem]
  /\ jnow = [h \in JobHandlers |-> 0]
  /\ jtrail = [h \in JobHandlers |-> <<>>]

NextJob ==
  \/ \E ok \in BOOLEAN : JobPollTick(ok)
  \/ \E ok \in BOOLEAN : JobPollPush(ok)
  \/ JobRunStop
  \/ JobRunReturn
  \/ \E h \in JobHandlers : JobHandlerStop(h)
  \/ \E h \in JobHandlers : JobRecv(h)
  \/ \E h \in JobHandlers, ok \in BOOLEAN : JobDelete(h, ok)
  \/ \E h \in JobHandlers, ok \in BOOLEAN : JobPublish(h, ok)
  \/ \E h \in JobHandlers, ok \in BOOLEAN : JobHHAppend(h, ok)
  \/ \E h \in JobHandlers, ok \in BOOLEAN : JobReinject(h, ok)
  \/ \E h \in JobHandlers, ok \in BOOLEAN : JobArchive(h, ok)
  \/ JobClockTick
  \/ JobSignalStop


\* ===================================================== hinted handoff (disk)
Dirs == <<"d0", "d1">>                 \* cfg.Dirs
ClusterTopics == {<<"c1", "t1">>, <<"c1", "t2">>}
Appenders == {"a1", "a2"}

\* nextDir: "find least loaded dir" is a TODO
NextDir == Dirs[1]

DirSet == {Dirs[i] : i \in 1..Len(Dirs)}
Locs == DirSet \X ClusterTopics

NoDisk == [blocks |-> 0, cursor |-> 0]

RECURSIVE SumBlocks(_, _)
SumBlocks(dk, locs) ==
  IF locs = {} THEN 0
  ELSE LET loc == CHOOSE l \in locs : TRUE
       IN dk[loc].blocks + SumBlocks(dk, locs \ {loc})

TotalBlocks(dk) == SumBlocks(dk, DOMAIN dk)
OnDisk(dk, loc) == IF loc \in DOMAIN dk THEN dk[loc] ELSE NoDisk

\* queue.Open at a directory: the cursor comes from cursor.dmp, a missing
\* file starts at the first block
OpenedQueue(dk, dir, ct, start) ==
  [dir |-> dir, open |-> TRUE, started |-> start,
   cursor |-> OnDisk(dk, <<dir, ct>>).cursor, okN |-> 0]

FailedQueue(dir, ct) ==
  [dir |-> dir, open |-> FALSE, started |-> FALSE, cursor |-> 0, okN |-> 0]

\* createAndOpenQueue(ct, start): the registry entry is set before Open runs
CreateAndOpenQueue(qs, dk, ct, start, openOk) ==
  LET dir == NextDir
  IN [queues |-> (ct :> (IF openOk THEN OpenedQueue(dk, dir, ct, start)
                                    ELSE FailedQueue(dir, ct))) @@ qs,
      disk |-> IF openOk /\ <<dir, ct>> \notin DOMAIN dk
                 THEN (<<dir, ct>> :> NoDisk) @@ dk ELSE dk,
      err |-> ~openOk]

\* The queue directories loadQueues finds, data directory by data directory.
RECURSIVE FoundFrom(_, _)
FoundFrom(dk, i) ==
  IF i > Len(Dirs) THEN <<>>
  ELSE SetToSeq({loc \in DOMAIN dk : loc[1] = Dirs[i]}) \o FoundFrom(dk, i + 1)

\* Start's loop over the found queues; the Open of entry failAt fails
\* (failAt = 0: none does; failAt past the last entry: a data directory
\* after the loaded ones cannot be made or read).
RECURSIVE LoadQueues(_, _, _, _, _, _)
LoadQueues(qs, dk, found, i, failAt, startQueues) ==
  IF i > Len(found) THEN [queues |-> qs, disk |-> dk, err |-> failAt > Len(found)]
  ELSE LET r == CreateAndOpenQueue(qs, dk, found[i][2], startQueues, i # failAt)
       IN IF r.err THEN r
          ELSE LoadQueues(r.queues, r.disk, found, i + 1, failAt, startQueues)

\* The createAndOpenQueue calls of a Start whose entry failAt fails.
LoadedCount(found, failAt, ct) ==
  Cardinality({i \in DOMAIN found :
                 found[i][2] = ct /\ (failAt = 0 \/ i <= failAt)})

NoneYet == [ct \in ClusterTopics |-> 0]

\* Service.Start. Gateway.Start calls it on the service New built and gives
\* up when it fails, so it runs on a closed service with an empty registry.
ServiceStart(failAt) ==
  /\ closed /\ DOMAIN queues = {}
  /\ failAt \in 0..(Len(FoundFrom(disk, 1)) + 1)
  /\ LET r == LoadQueues(queues, disk, FoundFrom(disk, 1), 1, failAt, TRUE)
     IN /\ queues' = r.queues
        /\ disk' = r.disk
        /\ closed' = IF r.err THEN closed ELSE FALSE
        /\ hhOp' = IF r.err THEN "startFailed" ELSE "started"
  /\ created' = [ct \in ClusterTopics |-> LoadedCount(FoundFrom(disk, 1), failAt, ct)]
  /\ qcloses' = NoneYet
  /\ UNCHANGED <<apc, act, aref, aresult, appendLimit, lastCaller, hwm, dups, gap>>
  /\ UNCHANGED notHHVars

\* queue.Close on clean shutdown: the cursor is persisted
ClosedDisk(qs, dk) ==
  [loc \in DOMAIN dk |->
     IF loc[2] \in DOMAIN qs /\ qs[loc[2]].open /\ qs[loc[2]].dir = loc[1]
       THEN [dk[loc] EXCEPT !.cursor = qs[loc[2]].cursor]
       ELSE dk[loc]]

StoppedQueuesKept(qs) == qs

\* this.queues = make(map[clusterTopic]*queue)
StoppedQueues(qs) == EmptyMap

\* Service.Stop
ServiceStop ==
  /\ IF closed
       THEN /\ hhOp' = "stopNoop"
            /\ UNCHANGED <<closed, queues, disk, aref, created, qcloses>>
       ELSE /\ disk' = ClosedDisk(queues, disk)
            /\ qcloses' = [ct \in ClusterTopics |->
                             IF ct \in DOMAIN queues THEN qcloses[ct] + 1 ELSE qcloses[ct]]
            /\ queues' = StoppedQueues(queues)
            /\ closed' = TRUE
            /\ aref' = [a \in Appenders |-> IF aref[a] = "live" THEN "stale" ELSE aref[a]]
            /\ created' = NoneYet
            /\ hhOp' = "stopped"
  /\ UNCHANGED <<apc, act, aresult, appendLimit, lastCaller, hwm, dups, gap>>
  /\ UNCHANGED notHHVars

NotOpenNever(c) == FALSE

\* if this.closed { return ErrNotOpen }
NotOpen(c) == c

\* Service.Append, up to the check of closed
AppendCheck(a, ct) ==
  /\ apc[a] = "idle" /\ TotalBlocks(disk) < appendLimit
  /\ lastCaller' = a
  /\ act' = [act EXCEPT ![a] = ct]
  /\ IF NotOpen(closed)
       THEN /\ aresult' = [aresult EXCEPT ![a] = "ErrNotOpen"]
            /\ UNCHANGED apc
       ELSE /\ aresult' = [aresult EXCEPT ![a] = "none"]
            /\ apc' = [apc EXCEPT ![a] = "lookup"]
  /\ UNCHANGED <<closed, queues, disk, aref, appendLimit, hwm, dups, gap>>
  /\ UNCHANGED hhObs
  /\ UNCHANGED notHHVars

\* RLock; q, present := this.queues[ct]; RUnlock
AppendLookup(a) ==
  /\ apc[a] = "lookup"
  /\ IF act[a] \in DOMAIN queues
       THEN /\ apc' = [apc EXCEPT ![a] = "qappend"]
            /\ aref' = [aref EXCEPT ![a] = "live"]
       ELSE /\ apc' = [apc EXCEPT ![a] = "locked"]
            /\ UNCHANGED aref
  /\ UNCHANGED <<closed, queues, disk, act, aresult, appendLimit, lastCaller, hwm,
                 dups, gap>>
  /\ UNCHANGED hhObs
  /\ UNCHANGED notHHVars

\* queue.Append: ErrNotOpen on a queue that is not open, else one more block
QueueAppend(q, dk, ct, live) ==
  IF live /\ q.open
    THEN [disk |-> [dk EXCEPT ![<<q.dir, ct>>].blocks = @ + 1], result |-> "ok"]
    ELSE [disk |-> dk, result |-> "ErrNotOpen"]

\* return q.Append(b) with the queue found under the read lock
AppendToFound(a) ==
  /\ apc[a] = "qappend"
  /\ LET live == aref[a] = "live" /\ act[a] \in DOMAIN queues
         q == IF act[a] \in DOMAIN queues THEN queues[act[a]] ELSE FailedQueue(NextDir, act[a])
         r == QueueAppend(q, disk, act[a], live)
     IN /\ disk' = r.disk
        /\ aresult' = [aresult EXCEPT ![a] = r.result]
  /\ apc' = [apc EXCEPT ![a] = "idle"]
  /\ aref' = [aref EXCEPT ![a] = "none"]
  /\ UNCHANGED <<closed, queues, act, appendLimit, lastCaller, hwm, dups, gap>>
  /\ UNCHANGED hhObs
  /\ UNCHANGED notHHVars

DoubleCheckSkipped(qs, ct) == FALSE

\* q, present = this.queues[ct] under the write lock
DoubleCheck(qs, ct) == ct \in DOMAIN qs

\* Lock; double check; createAndOpenQueue; q.Append(b); Unlock
AppendLocked(a, openOk) ==
  /\ apc[a] = "locked"
  /\ IF DoubleCheck(queues, act[a])
       THEN LET r == QueueAppend(queues[act[a]], disk, act[a], TRUE)
            IN /\ disk' = r.disk
               /\ aresult' = [aresult EXCEPT ![a] = r.result]
               /\ UNCHANGED <<queues, created>>
       ELSE LET c == CreateAndOpenQueue(queues, disk, act[a], TRUE, openOk)
                r == QueueAppend(c.queues[act[a]], c.disk, act[a], TRUE)
            IN /\ queues' = c.queues
               /\ created' = [created EXCEPT ![act[a]] = @ + 1]
               /\ IF c.err
                    THEN /\ disk' = c.disk
                         /\ aresult' = [aresult EXCEPT ![a] = "err"]
                    ELSE /\ disk' = r.disk
                         /\ aresult' = [aresult EXCEPT ![a] = r.result]
  /\ apc' = [apc EXCEPT ![a] = "idle"]
  /\ UNCHANGED <<closed, act, aref, appendLimit, lastCaller, hwm, dups, gap, qcloses, hhOp>>
  /\ UNCHANGED notHHVars

\* --- the drain of a started queue
\* Blocks no broker ever accepts: the drain gives them up after the retries.
Poison == {3}

DumpDueLate(okN) == okN % (dumpPerBlocks + 1) = 0

\* the cursor is dumped every dumpPerBlocks successful replays
DumpDue(okN) == okN % dumpPerBlocks = 0

\* One block goes to the delivery callback: delivered ("ok"), given up after
\* the retries ("skip"), or the broker is down and the queue stays parked.
DrainDeliver(ct, outcome) ==
  /\ ct \in DOMAIN queues
  /\ queues[ct].open /\ queues[ct].started
  /\ LET q == queues[ct]
         loc == <<q.dir, ct>>
         i == q.cursor + 1
         okN == IF outcome = "ok" THEN q.okN + 1 ELSE q.okN
     IN /\ q.cursor < OnDisk(disk, loc).blocks
        /\ outcome = "ok" => i \notin Poison
        /\ outcome = "skip" => i \in Poison
        /\ gap' = (gap \/ i > hwm[loc] + 1)
        /\ IF outcome = "down"
             THEN UNCHANGED <<queues, disk, dups, hwm>>
             ELSE /\ queues' = [queues EXCEPT ![ct].cursor = i, ![ct].okN = okN]
                  /\ disk' = IF outcome = "ok" /\ DumpDue(okN)
                               THEN [disk EXCEPT ![loc].cursor = i] ELSE disk
                  /\ dups' = IF outcome = "ok" /\ i <= hwm[loc]
                               THEN [dups EXCEPT ![loc] = @ + 1] ELSE dups
                  /\ hwm' = [hwm EXCEPT ![loc] = IF i > @ THEN i ELSE @]
  /\ UNCHANGED <<closed, apc, act, aref, aresult, appendLimit, lastCaller>>
  /\ UNCHANGED hhObs
  /\ UNCHANGED notHHVars

FlushNeverRejected(c) == FALSE

\* if !this.closed { log.Error(...); return }
FlushRejected(c) == ~c

\* Blocks lo+1..hi that had been delivered before and are delivered again.
Redelivered(lo, hi, h) == Cardinality({i \in (lo + 1)..hi : i <= h /\ i \notin Poison})

\* queue.FlushInflights of the queues in `done`: every remaining block is
\* replayed in order; the other queues fail on their first block.
FlushedQueues(qs, dk, done) ==
  [ct \in DOMAIN qs |->
     IF ct \in done /\ qs[ct].open
       THEN [qs[ct] EXCEPT !.cursor = OnDisk(dk, <<qs[ct].dir, ct>>).blocks]
       ELSE qs[ct]]

\* Service.FlushInflights. The gateway calls it on the service New built; on
\* a closed service it runs with an empty registry.
ServiceFlushInflights(failAt, done) ==
  /\ closed => DOMAIN queues = {}
  /\ failAt \in 0..(Len(FoundFrom(disk, 1)) + 1)
  /\ IF FlushRejected(closed)
       THEN /\ hhOp' = "flushRejected"
            /\ UNCHANGED <<queues, disk, hwm, dups, created>>
       ELSE LET r == LoadQueues(queues, disk, FoundFrom(disk, 1), 1, failAt, FALSE)
                fq == FlushedQueues(r.queues, r.disk, done)
            IN /\ disk' = r.disk
               /\ created' = [ct \in ClusterTopics |->
                                created[ct] + LoadedCount(FoundFrom(disk, 1), failAt, ct)]
               /\ IF r.err
                    THEN /\ queues' = r.queues
                         /\ hhOp' = "flushLoadFailed"
                         /\ UNCHANGED <<hwm, dups>>
                    ELSE /\ done \subseteq DOMAIN r.queues
                         /\ queues' = fq
                         /\ hhOp' = "flushed"
                         /\ hwm' = [loc \in Locs |->
                                      IF loc[2] \in DOMAIN fq /\ fq[loc[2]].dir = loc[1]
                                           /\ fq[loc[2]].cursor > hwm[loc]
                                        THEN fq[loc[2]].cursor ELSE hwm[loc]]
                         /\ dups' = [loc \in Locs |->
                                       IF loc[2] \in DOMAIN fq /\ fq[loc[2]].dir = loc[1]
                                         THEN dups[loc] + Redelivered(r.queues[loc[2]].cursor,
                                                                      fq[loc[2]].cursor, hwm[loc])
                                         ELSE dups[loc]]
  /\ UNCHANGED <<closed, apc, act, aref, aresult, appendLimit, lastCaller, gap, qcloses>>
  /\ UNCHANGED notHHVars

\* The process dies and is started again: memory is lost, the disk is kept,
\* and New() builds a closed service with an empty registry.
Crash ==
  /\ closed' = TRUE
  /\ queues' = EmptyMap
  /\ apc' = [a \in Appenders |-> "idle"]
  /\ aref' = [a \in Appenders |-> "none"]
  /\ dups' = [loc \in Locs |-> 0]
  /\ created' = NoneYet
  /\ qcloses' = NoneYet
  /\ hhOp' = "crashed"
  /\ UNCHANGED <<disk, act, aresult, appendLimit, lastCaller, hwm, gap>>
  /\ UNCHANGED notHHVars

\* New(cfg), with the data directories as an earlier run left them
InitServiceOn(limit, disks) ==
  /\ closed = TRUE
  /\ queues = EmptyMap
  /\ disk \in disks
  /\ apc = [a \in Appenders |-> "idle"]
  /\ act = [a \in Appenders |-> <<"c1", "t1">>]
  /\ aref = [a \in Appenders |-> "none"]
  /\ aresult = [a \in Appenders |-> "none"]
  /\ appendLimit = limit
  /\ lastCaller = "a1"
  /\ hwm = [loc \in Locs |-> 0]
  /\ dups = [loc \in Locs |-> 0]
  /\ gap = FALSE
  /\ created = NoneYet
  /\ qcloses = NoneYet
  /\ hhOp = "new"

\* New(cfg) on empty data directories
InitService(limit) == InitServiceOn(limit, {EmptyMap})

\* Data directories an earlier run left behind: every queue directory lies
\* under one of the configured directories and holds one block.
SeedDisks == [ClusterTopics -> DirSet \cup {"absent"}]

SeedDisk(where) ==
  [loc \in {l \in Locs : where[l[2]] = l[1]} |-> [blocks |-> 1, cursor |-> 0]]

NextHH ==
  \/ \E failAt \in 0..(Cardinality(ClusterTopics) + 1) : ServiceStart(failAt)
  \/ ServiceStop
  \/ \E a \in Appenders, ct \in ClusterTopics : AppendCheck(a, ct)
  \/ \E a \in Appenders : AppendLookup(a)
  \/ \E a \in Appenders : AppendToFound(a)
  \/ \E a \in Appenders, openOk \in BOOLEAN : AppendLocked(a, openOk)
  \/ \E ct \in ClusterTopics, outcome \in {"ok", "skip", "down"} : DrainDeliver(ct, outcome)
  \/ \E failAt \in 0..(Cardinality(ClusterTopics) + 1), done \in SUBSET ClusterTopics :
       ServiceFlushInflights(failAt, done)
  \/ Crash

\* the service over data directories that hold queues already
NextDirs ==
  \/ \E failAt \in 0..(Cardinality(ClusterTopics) + 1) : ServiceStart(failAt)
  \/ ServiceStop
  \/ \E ct \in ClusterTopics, outcome \in {"ok", "skip", "down"} : DrainDeliver(ct, outcome)
  \/ \E failAt \in 0..(Cardinality(ClusterTopics) + 1), done \in SUBSET ClusterTopics :
       ServiceFlushInflights(failAt, done)
  \/ Crash

NextDrain ==
  \/ \E failAt \in 0..2 : ServiceStart(failAt)
  \/ AppendCheck("a1", <<"c1", "t1">>)
  \/ AppendLookup("a1")
  \/ AppendToFound("a1")
  \/ \E openOk \in BOOLEAN : AppendLocked("a1", openOk)
  \/ \E outcome \in {"ok", "skip", "down"} : DrainDeliver(<<"c1", "t1">>, outcome)
  \/ Crash


\* ================================================== sub server connections
Conns == {"10.0.0.1:1", "10.0.0.2:2"}      \* connections, named by remote address

\* case <-this.gw.shutdownCh in the StateIdle callback
ShutdownBegun(ch) == ch

\* delete(this.idleConns, c)
IdleConnsKept(idle, c) == idle
IdleConnsDelete(idle, c) == idle \ {c}

\* atomic.AddInt32(&this.activeConnN, -1)
ActiveConnKept(v) == v
ActiveConnDec(v) == v - 1

\* http.StateNew
ConnNew(c) ==
  /\ connState[c] = "none" /\ wpc = "waiting"
  /\ connState' = [connState EXCEPT ![c] = "new"]
  /\ idleConnsWg' = idleConnsWg + 1
  /\ activeConnN' = activeConnN + 1
  /\ UNCHANGED <<idlePc, idleConns, closedConnCh, sockClosed, deadlined, wpc, emitted>>
  /\ UNCHANGED <<shutdownCh, notConnVars>>

\* http.StateActive
ConnActive(c) ==
  /\ connState[c] \in {"new", "idle"} /\ idlePc[c] = "none" /\ c \notin sockClosed
  /\ connState' = [connState EXCEPT ![c] = "active"]
  /\ idleConns' = IdleConnsDelete(idleConns, c)
  /\ UNCHANGED <<idlePc, idleConnsWg, activeConnN, closedConnCh, sockClosed, deadlined,
                 wpc, emitted>>
  /\ UNCHANGED <<shutdownCh, notConnVars>>

\* http.StateIdle, up to the select on shutdownCh. The server lets a
\* connection go idle only while keep-alives are enabled.
ConnIdleSelect(c) ==
  /\ connState[c] = "active" /\ wpc = "waiting"
  /\ connState' = [connState EXCEPT ![c] = "idle"]
  /\ idlePc' = [idlePc EXCEPT ![c] = IF ShutdownBegun(shutdownCh) THEN "sawShutdown"
                                                                 ELSE "sawOpen"]
  /\ UNCHANGED <<idleConns, idleConnsWg, activeConnN, closedConnCh, sockClosed, deadlined,
                 wpc, emitted>>
  /\ UNCHANGED <<shutdownCh, notConnVars>>

\* http.StateIdle, the branch the select chose
ConnIdleApply(c) ==
  /\ idlePc[c] # "none"
  /\ IF idlePc[c] = "sawShutdown"
       THEN /\ sockClosed' = sockClosed \cup {c}
            /\ idleConns' = IdleConnsDelete(idleConns, c)
       ELSE /\ idleConns' = idleConns \cup {c}
            /\ UNCHANGED sockClosed
  /\ idlePc' = [idlePc EXCEPT ![c] = "none"]
  /\ UNCHANGED <<connState, idleConnsWg, activeConnN, closedConnCh, deadlined, wpc, emitted>>
  /\ UNCHANGED <<shutdownCh, notConnVars>>

\* http.StateHijacked: the last callback of a connection a websocket took
ConnHijacked(c) ==
  /\ connState[c] = "active"
  /\ connState' = [connState EXCEPT ![c] = "hijacked"]
  /\ idleConns' = IdleConnsDelete(idleConns, c)
  /\ activeConnN' = ActiveConnDec(activeConnN)
  /\ UNCHANGED <<idlePc, idleConnsWg, closedConnCh, sockClosed, deadlined, wpc, emitted>>
  /\ UNCHANGED <<shutdownCh, notConnVars>>

\* this.idleConnsWg.Done()
WgDoneSkipped(v) == v
WgDone(v) == v - 1

\* http.StateClosed: the send blocks while closedConnCh is full
ConnClosed(c) ==
  /\ connState[c] \in {"new", "active", "idle"} /\ idlePc[c] = "none"
  /\ Len(closedConnCh) < ClosedConnChCap
  /\ connState' = [connState EXCEPT ![c] = "closed"]
  /\ closedConnCh' = Append(closedConnCh, c)
  /\ emitted' = [emitted EXCEPT ![c] = @ + 1]
  /\ idleConnsWg' = WgDone(idleConnsWg)
  /\ activeConnN' = ActiveConnDec(activeConnN)
  /\ idleConns' = IdleConnsDelete(idleConns, c)
  /\ UNCHANGED <<idlePc, sockClosed, deadlined, wpc>>
  /\ UNCHANGED <<shutdownCh, notConnVars>>

\* the sub store takes a remote address off closedConnCh
ClosedConnRecv ==
  /\ closedConnCh # <<>>
  /\ closedConnCh' = Tail(closedConnCh)
  /\ UNCHANGED <<connState, idlePc, idleConns, idleConnsWg, activeConnN, sockClosed,
                 deadlined, wpc, emitted>>
  /\ UNCHANGED <<shutdownCh, notConnVars>>

\* waitExit: <-exit, keep-alives off, listeners closed
WaitExitBegin ==
  /\ wpc = "waiting" /\ shutdownCh
  /\ wpc' = "sweep"
  /\ UNCHANGED <<connState, idlePc, idleConns, idleConnsWg, activeConnN, closedConnCh,
                 sockClosed, deadlined, emitted>>
  /\ UNCHANGED <<shutdownCh, notConnVars>>

\* for c := range this.idleConns { c.SetReadDeadline(t) }
Swept(idle, dl) == dl \cup idle

\* waitExit: the sweep of the idle set under idleConnsLock
WaitExitSweep ==
  /\ wpc = "sweep"
  /\ deadlined' = Swept(idleConns, deadlined)
  /\ wpc' = "waitConns"
  /\ UNCHANGED <<connState, idlePc, idleConns, idleConnsWg, activeConnN, closedConnCh,
                 sockClosed, emitted>>
  /\ UNCHANGED <<shutdownCh, notConnVars>>

\* this.idleConnsWg.WaitTimeout(Options.SubTimeout) returns
WaitsForZero(timedOut, wg) == wg = 0
WaitTimeoutReturns(timedOut, wg) == timedOut \/ wg = 0

\* waitExit: idleConnsWg.WaitTimeout returns, all closed or timed out; then
\* metrics flush, timer stop, wg.Done and close(this.closed)
WaitExitReturn(timedOut) ==
  /\ wpc = "waitConns"
  /\ WaitTimeoutReturns(timedOut, idleConnsWg)
  /\ wpc' = "done"
  /\ UNCHANGED <<connState, idlePc, idleConns, idleConnsWg, activeConnN, closedConnCh,
                 sockClosed, deadlined, emitted>>
  /\ UNCHANGED <<shutdownCh, notConnVars>>

\* newSubServer, before the first connection
InitConn ==
  /\ connState = [c \in Conns |-> "none"]
  /\ idlePc = [c \in Conns |-> "none"]
  /\ idleConns = {}
  /\ idleConnsWg = 0
  /\ activeConnN = 0
  /\ closedConnCh = <<>>
  /\ sockClosed = {}
  /\ deadlined = {}
  /\ wpc = "waiting"
  /\ emitted = [c \in Conns |-> 0]

NextConn ==
  \/ \E c \in Conns : ConnNew(c)
  \/ \E c \in Conns : ConnActive(c)
  \/ \E c \in Conns : ConnIdleSelect(c)
  \/ \E c \in Conns : ConnIdleApply(c)
  \/ \E c \in Conns : ConnHijacked(c)
  \/ \E c \in Conns : ConnClosed(c)
  \/ ClosedConnRecv
  \/ SignalShutdown
  \/ WaitExitBegin
  \/ WaitExitSweep
  \/ \E timedOut \in BOOLEAN : WaitExitReturn(timedOut)


\* ======================================================= gateway lifecycle
\* what New creates on demand
Configs == [pub : BOOLEAN, sub : BOOLEAN, registry : BOOLEAN, telemetry : BOOLEAN,
            accessLog : BOOLEAN]

FullConfig == [pub |-> TRUE, sub |-> TRUE, registry |-> TRUE, telemetry |-> TRUE,
               accessLog |-> TRUE]

\* the steps of Start, in program order
StartOrder == <<"meta", "manager", "telemetry", "accessLogger", "metrics", "manServer",
                "pubStore", "hh", "job", "pubServer", "subStore", "subServer", "registry">>

\* a stop sequence that tears the stores down before awaiting the servers
StopOrderStoresFirst == <<"registry", "shutdownCh", "hh", "accessLogger", "pubStore",
                          "subStore", "job", "pubServer", "subServer", "manServer", "wg",
                          "metrics", "telemetry", "meta", "manager", "zkzone">>

\* the steps of ServeForever after <-this.quiting, in program order
StopOrder == <<"registry", "shutdownCh", "pubServer", "subServer", "manServer", "hh",
               "accessLogger", "pubStore", "subStore", "job", "wg", "metrics",
               "telemetry", "meta", "manager", "zkzone">>

\* the nil checks and option checks around a step
Configured(cfg, comp) ==
  CASE comp \in {"pubStore", "hh", "job", "pubServer"} -> cfg.pub
    [] comp \in {"subStore", "subServer"} -> cfg.sub
    [] comp = "registry" -> cfg.registry
    [] comp = "telemetry" -> cfg.telemetry
    [] comp = "accessLogger" -> cfg.accessLog
    [] OTHER -> TRUE

\* steps of Start whose error ends Start (return err or panic)
StartMayFail == {"manager", "pubStore", "hh", "job", "subStore"}

Servers == {"pubServer", "subServer", "manServer"}

\* <-this.xxxServer.Closed() can return
ServerIsClosed(srv) == IF srv = "subServer" THEN wpc = "done" ELSE srv \in svrClosed

Started(comp) == <<"start", comp>>
Stopped(comp) == <<"stop", comp>>

\* one step of Gateway.Start
GatewayStartStep(ok) ==
  /\ gpc.ph = "start"
  /\ LET comp == StartOrder[gpc.i]
         last == gpc.i = Len(StartOrder)
     IN  IF ~Configured(gcfg, comp)
           THEN /\ ok
                /\ glog' = glog
                /\ gpc' = IF last THEN [ph |-> "serve", i |-> 0] ELSE [gpc EXCEPT !.i = @ + 1]
           ELSE IF ok
             THEN /\ glog' = Append(glog, Started(comp))
                  /\ gpc' = IF last THEN [ph |-> "serve", i |-> 0]
                                    ELSE [gpc EXCEPT !.i = @ + 1]
             ELSE /\ comp \in StartMayFail
                  /\ glog' = glog
                  /\ gpc' = [ph |-> "startFailed", i |-> gpc.i]
  /\ UNCHANGED <<gcfg, quiting, shutdownOnce, quitCloses, sigs, svrClosed, shutdowns>>
  /\ UNCHANGED <<shutdownCh, notGwVars>>

\* this.shutdownOnce.Do
OnceAlways(done) == TRUE
OnceRuns(done) == ~done

\* the handler registered for SIGINT and SIGTERM
SignalHandler ==
  /\ gpc.ph \in {"start", "serve", "stop"} /\ sigs < MaxSignals
  /\ sigs' = sigs + 1
  /\ IF OnceRuns(shutdownOnce)
       THEN /\ shutdownOnce' = TRUE
            /\ quiting' = TRUE
            /\ quitCloses' = quitCloses + 1
       ELSE UNCHANGED <<shutdownOnce, quiting, quitCloses>>
  /\ UNCHANGED <<gcfg, gpc, glog, svrClosed, shutdowns>>
  /\ UNCHANGED <<shutdownCh, notGwVars>>

\* ServeForever: case <-this.quiting
ServeForeverQuit ==
  /\ gpc.ph = "serve" /\ quiting
  /\ gpc' = [ph |-> "stop", i |-> 1]
  /\ shutdowns' = shutdowns + 1
  /\ UNCHANGED <<gcfg, glog, quiting, shutdownOnce, quitCloses, sigs, svrClosed>>
  /\ UNCHANGED <<shutdownCh, notGwVars>>

\* one step of the stop sequence in ServeForever
GatewayStopStep ==
  /\ gpc.ph = "stop"
  /\ LET comp == StopOrder[gpc.i]
     IN  /\ (comp \in Servers /\ Configured(gcfg, comp)) => ServerIsClosed(comp)
         /\ glog' = IF Configured(gcfg, comp) /\ comp \notin {"shutdownCh", "wg"}
                      THEN Append(glog, Stopped(comp)) ELSE glog
         /\ shutdownCh' = IF comp = "shutdownCh" THEN TRUE ELSE shutdownCh
         /\ gpc' = IF gpc.i = Len(StopOrder) THEN [ph |-> "exited", i |-> 0]
                                              ELSE [gpc EXCEPT !.i = @ + 1]
  /\ UNCHANGED <<gcfg, quiting, shutdownOnce, quitCloses, sigs, svrClosed, shutdowns>>
  /\ UNCHANGED notGwVars

\* the pub server or the man server finishes its waitExit
ServerClosed(srv) ==
  /\ srv \in {"pubServer", "manServer"} /\ Configured(gcfg, srv)
  /\ shutdownCh /\ srv \notin svrClosed
  /\ svrClosed' = svrClosed \cup {srv}
  /\ UNCHANGED <<gcfg, gpc, glog, quiting, shutdownOnce, quitCloses, sigs, shutdowns>>
  /\ UNCHANGED <<shutdownCh, notGwVars>>

\* gateway.New
InitGateway(cfg) ==
  /\ gcfg = cfg
  /\ gpc = [ph |-> "start", i |-> 1]
  /\ glog = <<>>
  /\ quiting = FALSE
  /\ shutdownOnce = FALSE
  /\ quitCloses = 0
  /\ sigs = 0
  /\ svrClosed = {}
  /\ shutdowns = 0

\* the sub server's waitExit, when there is a sub server
SubServerWaitExit ==
  /\ gcfg.sub
  /\ \/ WaitExitBegin
     \/ WaitExitSweep
     \/ \E timedOut \in BOOLEAN : WaitExitReturn(timedOut)

NextGateway ==
  \/ \E ok \in BOOLEAN : GatewayStartStep(ok)
  \/ SignalHandler
  \/ ServeForeverQuit
  \/ GatewayStopStep
  \/ \E srv \in Servers : ServerClosed(srv)
  \/ SubServerWaitExit


\* ============================================ one ack, once and twice
\* ackCommitter receives the batch <<ack>>
Submitted(run, ack) ==
  IF run.panic THEN run
  ELSE LET r == ApplyAcks(run.ao, <<ack>>)
       IN [run EXCEPT !.ao = r.ao, !.panic = r.panic]

\* commitOffsets, the coord store answering `res` for every slot it is asked
\* to set; a successful call stores the offset
Committed(run, res) ==
  IF run.panic THEN run
  ELSE LET calls == CommitCallSlots(run.ao)
           answers == [sl \in calls |-> res]
       IN [run EXCEPT
             !.ao = CommitOffsets(run.ao, answers),
             !.zk = IF res = "ok" THEN [sl \in calls |-> SlotValue(run.ao, sl)] @@ @
                                  ELSE @,
             !.writes = IF res = "ok" THEN @ + Cardinality(calls) ELSE @]

\* the client's first request reaches both committers
SubmitFirst ==
  /\ subs = 0
  /\ subs' = 1
  /\ once' = Submitted(once, theAck)
  /\ twice' = Submitted(twice, theAck)
  /\ UNCHANGED <<theAck, nodeExists>>
  /\ UNCHANGED notIdemVars

\* the client repeats the request: only the second committer gets it
SubmitAgain ==
  /\ subs = 1
  /\ subs' = 2
  /\ twice' = Submitted(twice, theAck)
  /\ UNCHANGED <<theAck, nodeExists, once>>
  /\ UNCHANGED notIdemVars

\* a flush (ticker or final) in both runs, the coord store in the same mood
FlushBoth(res) ==
  /\ (res = "nonode") <=> ~nodeExists
  /\ once' = Committed(once, res)
  /\ twice' = Committed(twice, res)
  /\ UNCHANGED <<theAck, nodeExists, subs>>
  /\ UNCHANGED notIdemVars

FreshRun == [ao |-> EmptyMap, zk |-> EmptyMap, writes |-> 0, panic |-> FALSE]

\* every ack over two names, a cluster, topic and group named alike included
AckNames == {"x", "y"}
AllAcks == {Ack(c, t, g, p, o) : c \in AckNames, t \in AckNames, g \in AckNames,
                                  p \in Partitions, o \in Offsets}

\* newSubServer, a client about to ack
InitIdem(acks, nodes) ==
  /\ theAck \in acks
  /\ nodeExists \in nodes
  /\ once = FreshRun
  /\ twice = FreshRun
  /\ subs = 0

NextIdem ==
  \/ SubmitFirst
  \/ SubmitAgain
  \/ \E res \in ZkResults : FlushBoth(res)


\* ================================================ drain loop and back-off
\* doubling without the cap
DoubledBackoff(b) == 2 * b

\* the back-off after one more failure: doubled, at most maxBackoff
NextBackoff(b) == IF 2 * b > maxBackoff THEN maxBackoff ELSE 2 * b

\* the delivery callback succeeded: the cursor passes the block
DeliverOk ==
  /\ bkCursor < QueuedBlocks
  /\ bkCursor' = bkCursor + 1
  /\ bkRetries' = 0 /\ bkBackoff' = initialBackoff /\ bkSlept' = 0
  /\ bkLast' = "ok"
  /\ UNCHANGED bkAudit
  /\ UNCHANGED notBkVars

\* the delivery callback failed with BrokerDown: wait and retry, for ever
DeliverBrokerDown ==
  /\ bkCursor < QueuedBlocks /\ bkRetries < MaxFailures
  /\ bkRetries' = bkRetries + 1
  /\ bkSlept' = bkBackoff
  /\ bkBackoff' = NextBackoff(bkBackoff)
  /\ bkLast' = "down"
  /\ UNCHANGED <<bkCursor, bkAudit>>
  /\ UNCHANGED notBkVars

\* the delivery callback failed otherwise: wait and retry, or after
\* defaultMaxRetries attempts skip the block and audit it
DeliverFailed ==
  /\ bkCursor < QueuedBlocks /\ bkRetries < MaxFailures
  /\ IF bkRetries + 1 >= defaultMaxRetries
       THEN /\ bkAudit' = bkAudit \cup {bkCursor + 1}
            /\ bkCursor' = bkCursor + 1
            /\ bkRetries' = 0 /\ bkBackoff' = initialBackoff /\ bkSlept' = 0
            /\ bkLast' = "skip"
       ELSE /\ bkRetries' = bkRetries + 1
            /\ bkSlept' = bkBackoff
            /\ bkBackoff' = NextBackoff(bkBackoff)
            /\ bkLast' = "fail"
            /\ UNCHANGED <<bkCursor, bkAudit>>
  /\ UNCHANGED notBkVars

\* the queue is opened with blocks waiting
InitBackoff ==
  /\ bkCursor = 0 /\ bkRetries = 0 /\ bkBackoff = initialBackoff /\ bkSlept = 0
  /\ bkAudit = {} /\ bkLast = "none"

NextBackoffLoop ==
  \/ DeliverOk
  \/ DeliverBrokerDown
  \/ DeliverFailed

\* ------------------------------------------------------------------- specifications
\* newSubServer, Start: empty map, counter 0, committer at its select.
InitAckFresh ==
  /\ shutdownCh = FALSE /\ ackShutdown = 0 /\ ackCh = <<>> /\ ackChClosed = FALSE
  /\ ackedOffsets = EmptyMap /\ n = 0 /\ cpc = "select"
  /\ hpc = [h \in Handlers |-> "idle"] /\ sends = 0 /\ sendOnClosed = FALSE
  /\ closedWithRunning = FALSE
  /\ zkCalls = <<>> /\ preFlush = EmptyMap /\ flushBit = 0 /\ lastOp = "none"
  /\ lastFlushed = FALSE /\ acksN = 0 /\ pendingAcks = EmptyMap
  /\ flushedLatest = EmptyMap /\ retained = {} /\ abandoned = {}

\* Every subsystem as constructed.
Init == InitAckFresh /\ InitJob /\ InitService(MaxAppends) /\ InitConn /\ InitGateway(FullConfig)
  /\ InitIdem({Ack("x", "y", "y", 0, 1)}, {TRUE}) /\ InitBackoff

NextAck ==
  \/ CommitterShutdown
  \/ CommitterWaitCheck
  \/ CommitterClose
  \/ CommitterRecv
  \/ CommitterRecvClosed
  \/ CommitterTick
  \/ SignalShutdown
  \/ \E h \in Handlers : AckHandlerEnter(h)
  \/ \E h \in Handlers, acks \in ShutdownBatches : AckHandlerSend(h, acks)
  \/ \E h \in Handlers : AckHandlerExit(h)

\* The committer with its handlers and the shutdown signal.
SpecAck == Init /\ [][NextAck]_vars

\* The committer in steady state: requests of one connection, no shutdown.
NextCommit ==
  \/ CommitterRecv
  \/ CommitterTick
  \/ AckHandlerEnter("h1")
  \/ \E acks \in Batches : AckHandlerSend("h1", acks)
  \/ AckHandlerExit("h1")

SpecCommit == Init /\ [][NextCommit]_vars

\* The job executor of one topic.

SpecJob == Init /\ [][NextJob]_vars

\* Run and every handler are goroutines the scheduler keeps running, the
\* calls they make return, and a select with several ready cases takes each
\* of them sooner or later. Whether a row scans is not the scheduler's to
\* choose: Run is only owed the send of a scanned row when the send can go.
SpecJobLive ==
  /\ Init /\ [][NextJob]_vars
  /\ SF_vars(JobRunStop)
  /\ WF_vars(JobRunReturn)
  /\ WF_vars(JobPollPush(TRUE))
  /\ \A h \in JobHandlers :
       /\ SF_vars(JobHandlerStop(h))
       /\ WF_vars(\E ok \in BOOLEAN : JobDelete(h, ok))
       /\ WF_vars(\E ok \in BOOLEAN : JobPublish(h, ok))
       /\ WF_vars(\E ok \in BOOLEAN : JobHHAppend(h, ok))
       /\ WF_vars(\E ok \in BOOLEAN : JobReinject(h, ok))
       /\ WF_vars(\E ok \in BOOLEAN : JobArchive(h, ok))

\* The hinted handoff service with concurrent callers.
SpecHH == Init /\ [][NextHH]_vars

\* One queue, appended to and drained across crashes and restarts.
InitDrain ==
  InitAckFresh /\ InitJob /\ InitService(MaxBlocks) /\ InitConn /\ InitGateway(FullConfig)
  /\ InitIdem({Ack("x", "y", "y", 0, 1)}, {TRUE}) /\ InitBackoff

SpecDrain == InitDrain /\ [][NextDrain]_vars

\* The sub server's connections and its shutdown watcher.
SpecConn == Init /\ [][NextConn]_vars

\* The gateway's Start and ServeForever under every set of configured
\* components, with signals and the servers' completion.
InitGw ==
  /\ InitAckFresh /\ InitJob /\ InitService(MaxAppends) /\ InitConn
  /\ \E cfg \in Configs : InitGateway(cfg)
  /\ InitIdem({Ack("x", "y", "y", 0, 1)}, {TRUE}) /\ InitBackoff

\* One ack of any slot and offset, submitted once to one committer and twice
\* to another, with flushes at any point.
InitTwice ==
  /\ InitAckFresh /\ InitJob /\ InitService(MaxAppends) /\ InitConn
  /\ InitGateway(FullConfig) /\ InitIdem(AllAcks, BOOLEAN) /\ InitBackoff

SpecIdem == InitTwice /\ [][NextIdem]_vars

\* The service started on data directories that hold queues.
InitDirs ==
  /\ InitAckFresh /\ InitJob /\ InitConn /\ InitGateway(FullConfig)
  /\ InitIdem({Ack("x", "y", "y", 0, 1)}, {TRUE}) /\ InitBackoff
  /\ InitServiceOn(MaxAppends, {SeedDisk(where) : where \in SeedDisks})

SpecDirs == InitDirs /\ [][NextDirs]_vars

\* One queue's drain loop against a callback that succeeds or fails at will.
SpecBackoff == Init /\ [][NextBackoffLoop]_vars

SpecGateway == InitGw /\ [][NextGateway]_vars

\* subServer.Start has run: this.gw.wg.Add(1); go this.ackCommitter()
SubServerStarted == \E i \in DOMAIN glog : glog[i] = Started("subServer")

\* this.wg.Wait() in ServeForever returns without awaiting the services
WgWaitSkipped(committer) == TRUE

\* this.wg.Wait() in ServeForever: the committer's deferred this.gw.wg.Done()
\* has run (the servers' own Done precede the Closed() awaited before)
WgWaitReturns(committer) == committer = "done"

\* the stop sequence with its wait on gw.wg
GatewayStopAwaiting ==
  /\ gpc.ph = "stop"
  /\ (StopOrder[gpc.i] = "wg" /\ SubServerStarted) => WgWaitReturns(cpc)
  /\ GatewayStopStep

\* the committer goroutine and the ack handlers of a started sub server,
\* within one period of the 30 s ticker
SubServerAcks ==
  /\ SubServerStarted
  /\ \/ CommitterShutdown
     \/ CommitterWaitCheck
     \/ CommitterClose
     \/ CommitterRecv
     \/ CommitterRecvClosed
     \/ \E h \in Handlers : AckHandlerEnter(h)
     \/ \E h \in Handlers, acks \in ShutdownBatches : AckHandlerSend(h, acks)
     \/ \E h \in Handlers : AckHandlerExit(h)

NextGatewayAcks ==
  \/ \E ok \in BOOLEAN : GatewayStartStep(ok)
  \/ SignalHandler
  \/ ServeForeverQuit
  \/ GatewayStopAwaiting
  \/ \E srv \in Servers : ServerClosed(srv)
  \/ SubServerWaitExit
  \/ SubServerAcks

\* The gateway's whole life with the sub server's committer and handlers.
SpecGatewayAcks == Init /\ [][NextGatewayAcks]_vars

\* waitExit is a goroutine of its own: the scheduler keeps running it, and the
\* timer of WaitTimeout fires.
SpecConnLive ==
  /\ Init /\ [][NextConn]_vars
  /\ WF_vars(WaitExitBegin)
  /\ WF_vars(WaitExitSweep)
  /\ WF_vars(\E timedOut \in BOOLEAN : WaitExitReturn(timedOut))

\* A state the committer is in after flushPerN - 2 single-ack requests for
\* one slot and a tick whose commit succeeded.
NearFlushSlot == <<"x", "y", "y", 0>>

InitNearFlush ==
  /\ shutdownCh = FALSE /\ ackShutdown = 0 /\ ackCh = <<>> /\ ackChClosed = FALSE
  /\ ackedOffsets = ("x" :> ("y" :> ("y" :> (0 :> -1))))
  /\ n = flushPerN - 2 /\ acksN = flushPerN - 2 /\ cpc = "select"
  /\ hpc = [h \in Handlers |-> "idle"] /\ sends = 0 /\ sendOnClosed = FALSE
  /\ closedWithRunning = FALSE
  /\ zkCalls = <<[slot |-> NearFlushSlot, offset |-> 1, res |-> "ok"]>>
  /\ preFlush = ("x" :> ("y" :> ("y" :> (0 :> 1))))
  /\ flushBit = 0 /\ lastOp = "tick" /\ lastFlushed = TRUE
  /\ pendingAcks = EmptyMap
  /\ flushedLatest = (NearFlushSlot :> [off |-> 1, cnt |-> 2])
  /\ retained = {} /\ abandoned = {}

InitFlushPerN ==
  InitNearFlush /\ InitJob /\ InitService(MaxAppends) /\ InitConn /\ InitGateway(FullConfig)
  /\ InitIdem({Ack("x", "y", "y", 0, 1)}, {TRUE}) /\ InitBackoff

SpecFlushPerN == InitFlushPerN /\ [][NextCommit]_vars

\* The committer has not been scheduled since Start while requests filled the
\* channel: make(chan ackOffsets, 100) holds its 100 batches, every sender
\* has returned.
FullAckCh == [i \in 1..AckChCap |-> <<Ack("x", "y", "y", 0, 1)>>]

InitAckFull ==
  /\ shutdownCh = FALSE /\ ackShutdown = 0 /\ ackCh = FullAckCh /\ ackChClosed = FALSE
  /\ ackedOffsets = EmptyMap /\ n = 0 /\ cpc = "select"
  /\ hpc = [h \in Handlers |-> "idle"] /\ sends = 0 /\ sendOnClosed = FALSE
  /\ closedWithRunning = FALSE
  /\ zkCalls = <<>> /\ preFlush = EmptyMap /\ flushBit = 0 /\ lastOp = "none"
  /\ lastFlushed = FALSE /\ acksN = 0 /\ pendingAcks = EmptyMap
  /\ flushedLatest = EmptyMap /\ retained = {} /\ abandoned = {}

InitFullCh ==
  /\ InitAckFull /\ InitJob /\ InitService(MaxAppends) /\ InitConn
  /\ InitGateway(FullConfig) /\ InitIdem({Ack("x", "y", "y", 0, 1)}, {TRUE}) /\ InitBackoff

\* The shutdown within one period of the 30 s ticker.
NextShutdown ==
  \/ CommitterShutdown
  \/ CommitterWaitCheck
  \/ CommitterClose
  \/ CommitterRecv
  \/ CommitterRecvClosed
  \/ SignalShutdown
  \/ \E h \in Handlers : AckHandlerEnter(h)
  \/ \E h \in Handlers, acks \in ShutdownBatches : AckHandlerSend(h, acks)
  \/ \E h \in Handlers : AckHandlerExit(h)

\* The committer and the handlers are goroutines the scheduler keeps running:
\* a select with a ready case takes it, the wait loop wakes every 10 ms, a
\* send goes through when the channel has room. New requests are the
\* environment's and owed nothing.
SpecAckLive ==
  /\ InitFullCh /\ [][NextShutdown]_vars
  /\ SF_vars(CommitterShutdown)
  /\ WF_vars(CommitterWaitCheck)
  /\ WF_vars(CommitterClose)
  /\ WF_vars(CommitterRecv)
  /\ WF_vars(CommitterRecvClosed)
  /\ \A h \in Handlers :
       /\ WF_vars(\E acks \in ShutdownBatches : AckHandlerSend(h, acks))
       /\ WF_vars(AckHandlerExit(h))

\* ------------------------------------------------------------------ claims
FlushStep == flushBit' # flushBit
RecvStep == ackCh # <<>> /\ ackCh' = Tail(ackCh)

\* C3: the committer closes the ack channel only when no ack handler is
\* still running, and no handler ever sends on the closed channel.
C3_CloseAfterHandlers == ~closedWithRunning /\ ~sendOnClosed

\* C4: a flush calls the coord store exactly once for every slot that is not
\* -1 and never for a slot holding -1; a slot committed with success holds -1
\* afterwards, a slot whose commit failed (not node-missing) keeps its offset
\* and is committed again by the next flush.
C4_FlushCommitsPendingSlots ==
  [][FlushStep =>
       /\ \A s \in Slots(preFlush') :
            CallCount(zkCalls', s) = IF SlotValue(preFlush', s) # -1 THEN 1 ELSE 0
       /\ \A i \in DOMAIN zkCalls' :
            /\ zkCalls'[i].offset = SlotValue(preFlush', zkCalls'[i].slot)
            /\ zkCalls'[i].res = "ok" => SlotValue(ackedOffsets', zkCalls'[i].slot) = -1
            /\ zkCalls'[i].res = "err" =>
                 SlotValue(ackedOffsets', zkCalls'[i].slot) = zkCalls'[i].offset
       /\ \A s \in retained : s \in CalledSlots(zkCalls')]_vars

\* C5: processing acks writes only the acked slots: the pending offset of
\* every other slot of the map is the same after the acks as before.
C5_AckWritesOnlyItsSlot ==
  [][(RecvStep /\ ~FlushStep) =>
       \A s \in Pending(ackedOffsets) :
         s \notin AckedSlots(Head(ackCh)) =>
           /\ s \in Slots(ackedOffsets')
           /\ SlotValue(ackedOffsets', s) = SlotValue(ackedOffsets, s)]_vars

\* C6: of several acks received for one slot between two flushes, the next
\* flush commits exactly the offset of the last one.
C6_FlushCommitsLatestAck ==
  \A s \in DOMAIN flushedLatest :
    flushedLatest[s].cnt = 2 =>
      /\ CallCount(zkCalls, s) = 1
      /\ \A i \in DOMAIN zkCalls :
           zkCalls[i].slot = s => zkCalls[i].offset = flushedLatest[s].off

\* C7: a commit answered node-missing sets the slot to -1 in that flush, and
\* no later flush commits the slot again unless a new ack for it has arrived.
C7_NoNodeAbandonsSlot ==
  [][FlushStep =>
       /\ \A i \in DOMAIN zkCalls' :
            zkCalls'[i].res = "nonode" => SlotValue(ackedOffsets', zkCalls'[i].slot) = -1
       /\ \A e \in abandoned :
            e[1] \in CalledSlots(zkCalls') => e[1] \in DOMAIN flushedLatest']_vars

\* C7 witness: a slot abandoned on node-missing holds -1 and a later flush
\* has run without calling the coord store for it.
C7_Witness ==
  \E e \in abandoned :
    /\ e[1] \in Slots(ackedOffsets) /\ SlotValue(ackedOffsets, e[1]) = -1
    /\ e[1] \notin CalledSlots(zkCalls)
    /\ lastOp = "tick"

\* C8: once the channel is closed every batch sent before the close is
\* applied, a final flush runs on the empty channel, then the committer
\* exits; no accepted ack is left out of a flush.
C8_DrainThenFinalFlush ==
  /\ ackChClosed => cpc # "panic"
  /\ cpc = "done" =>
       /\ ackCh = <<>>
       /\ lastOp = "final" /\ lastFlushed
       /\ pendingAcks = EmptyMap

\* C9 as stated: a full flush runs each time the cumulative number of acks
\* received reaches a multiple of flushPerN.
C9_FlushEveryNAcks ==
  [][(RecvStep /\ cpc' # "panic") =>
       ((acksN' \div flushPerN) > (acksN \div flushPerN) => FlushStep)]_vars

\* C9 amended: a full flush runs exactly when the number of ack batches
\* received reaches a multiple of flushPerN, and on every tick the
\* committer's select receives.
C9_FlushEveryNBatches ==
  [][/\ (RecvStep /\ cpc' # "panic") => (FlushStep <=> (n' % flushPerN = 0))
     /\ (lastOp' = "tick" => lastFlushed')
     /\ (lastOp' = "tick" /\ lastOp # "tick") => FlushStep]_vars

\* C9 witness: the flushPerN-th batch has just been received and flushed.
C9_Witness == lastOp = "recv" /\ lastFlushed /\ n = flushPerN /\ acksN > n

\* C2: every due job that no handler is part-way through has a history row
\* or is in the due table, whichever of the handler's calls failed.
C2_DueJobNeverLost ==
  \A r \in JobRows :
    (r.DueTime <= clock /\ \A h \in JobHandlers : (jpc[h] \in {"idle", "exit"} \/ jitem[h].JobId # r.JobId))
      => \/ \E hr \in historyTable : hr.job_id = r.JobId
         \/ r \in dueTable

\* C1: the blocks appended to one queue reach the delivery callback in append
\* order across crashes and restarts, none is lost (the cursor, in memory or
\* persisted, never passes a block that was not handed over), and after a
\* restart at most dumpPerBlocks - 1 = 99 blocks are delivered a second time.
C1_DrainInOrderFewDuplicates ==
  /\ ~gap
  /\ dumpPerBlocks - 1 = 99
  /\ \A loc \in DOMAIN disk :
       /\ dups[loc] <= dumpPerBlocks - 1
       /\ disk[loc].cursor <= hwm[loc]
       /\ hwm[loc] <= disk[loc].blocks
       /\ (loc[2] \in DOMAIN queues /\ queues[loc[2]].dir = loc[1])
            => queues[loc[2]].cursor <= hwm[loc]

\* C1 witness: after a crash and a restart the queue has delivered 99 blocks
\* a second time and has drained every block of more than dumpPerBlocks.
C1_Witness ==
  \E loc \in DOMAIN disk :
    /\ dups[loc] = dumpPerBlocks - 1
    /\ disk[loc].blocks > dumpPerBlocks
    /\ loc[2] \in DOMAIN queues /\ queues[loc[2]].started
    /\ queues[loc[2]].cursor = disk[loc].blocks
    /\ hwm[loc] = disk[loc].blocks

AppendCalled(a) ==
  /\ apc[a] = "idle" /\ lastCaller' = a
  /\ (act' # act \/ lastCaller' # lastCaller \/ apc'[a] # apc[a] \/ aresult'[a] # aresult[a])

\* C10: Service.Append on a closed service returns ErrNotOpen, creates no
\* queue, appends no block and leaves the registry as it is.
C10_ClosedAppendRefused ==
  [][\A a \in Appenders :
       (closed /\ AppendCalled(a)) =>
         /\ aresult'[a] = "ErrNotOpen" /\ apc'[a] = "idle"
         /\ queues' = queues /\ disk' = disk]_vars

\* C10 witness: after a Stop of a service that holds blocks, the latest
\* Append has returned ErrNotOpen.
C10_Witness ==
  /\ closed /\ TotalBlocks(disk) > 0 /\ DOMAIN queues = {}
  /\ apc[lastCaller] = "idle" /\ aresult[lastCaller] = "ErrNotOpen"
  /\ \A a \in Appenders : aref[a] = "none"

AppendReturned(a) == apc[a] # "idle" /\ aresult[a] = "none" /\ aresult'[a] # "none"

\* C11: concurrent Service.Append calls for a (cluster, topic) without a queue
\* create one queue for the key, never a second one, and every call that was
\* not overtaken by a Stop or an I/O error appends its block to that queue.
C11_OneQueuePerKey ==
  [][/\ \A ct \in ClusterTopics :
          /\ created'[ct] <= 1
          /\ ct \in DOMAIN queues' => created'[ct] = 1
     /\ \A a \in Appenders :
          AppendReturned(a) =>
            LET ct == act[a]
                loc == <<NextDir, ct>>
            IN /\ aresult'[a] = "ok" =>
                    /\ ct \in DOMAIN queues' /\ queues'[ct].dir = NextDir
                    /\ disk'[loc].blocks = OnDisk(disk, loc).blocks + 1
               /\ (aref[a] # "stale" /\ ct \in DOMAIN queues' /\ queues'[ct].open)
                    => aresult'[a] = "ok"]_vars

\* C11 witness: one caller has created the queue and appended to it while
\* another, whose lookup found no queue, is about to take the write lock.
C11_Witness ==
  \E a, b \in Appenders :
    /\ a # b /\ act[a] = act[b]
    /\ apc[a] = "locked" /\ apc[b] = "idle" /\ aresult[b] = "ok"
    /\ act[a] \in DOMAIN queues /\ queues[act[a]].started
    /\ created[act[a]] = 1
    /\ disk[<<NextDir, act[a]>>].blocks = 1

FlushInflightsRan == hhOp' # hhOp /\ hhOp' \in {"flushed", "flushLoadFailed"}
FlushInflightsRefused == hhOp' # hhOp /\ hhOp' = "flushRejected"

\* C12: Service.FlushInflights on a service that is not closed returns after
\* logging, loads no queue, replays no block and leaves the registry as it
\* is; it loads and replays only when closed is set.
C12_FlushOnlyWhenClosed ==
  [][/\ FlushInflightsRan => closed
     /\ (~closed /\ (FlushInflightsRan \/ FlushInflightsRefused)) =>
          /\ hhOp' = "flushRejected"
          /\ UNCHANGED <<closed, queues, disk, hwm, dups, created>>]_vars

\* C12 witness: FlushInflights has been refused on a running service that
\* holds a queue with a block not yet replayed.
C12_Witness ==
  /\ hhOp = "flushRejected" /\ ~closed
  /\ \E ct \in DOMAIN queues :
       queues[ct].open /\ queues[ct].cursor < OnDisk(disk, <<queues[ct].dir, ct>>).blocks

StopRan == hhOp' # hhOp /\ hhOp' = "stopped"
StopAgain == hhOp' # hhOp /\ hhOp' = "stopNoop"

\* C13: Service.Stop on a started service closes every registered queue
\* once, empties the registry and sets closed; a Stop on a closed service
\* closes no queue and changes no state.
C13_StopIdempotent ==
  [][/\ StopRan =>
          /\ ~closed /\ closed'
          /\ DOMAIN queues' = {}
          /\ \A ct \in ClusterTopics :
               /\ qcloses'[ct] = qcloses[ct] + (IF ct \in DOMAIN queues THEN 1 ELSE 0)
               /\ qcloses'[ct] <= 1
     /\ StopAgain =>
          /\ closed
          /\ UNCHANGED <<closed, queues, disk, qcloses, created, apc, act, aref, aresult,
                         hwm, dups, gap>>]_vars

\* C13 witness: a second Stop has run after a Stop that closed a queue.
C13_Witness ==
  /\ hhOp = "stopNoop" /\ closed /\ DOMAIN queues = {}
  /\ \E ct \in ClusterTopics : qcloses[ct] = 1

\* The history row of the claim: the job's fields, the handling time and the
\* controller's id.
HistoryRowOf(h) ==
  [job_id |-> jitem[h].JobId, payload |-> jitem[h].Payload, ctime |-> jitem[h].Ctime,
   due_time |-> jitem[h].DueTime, etime |-> jnow[h], actor_id |-> parentId]

Working == {"pub", "hh", "archive", "reinject"}
InTrail(h, e) == \E i \in DOMAIN jtrail[h] : jtrail[h][i] = e
TrailCount(t, es) == Cardinality({i \in DOMAIN t : t[i] \in es})
DeleteStep(h) == jpc[h] = "delete" /\ jpc'[h] # "delete"
RowDeleted(h) ==
  /\ \E r \in dueTable : r.JobId = jitem[h].JobId
  /\ ~\E r \in dueTable' : r.JobId = jitem[h].JobId

\* C14: a handler whose DELETE affected no row or failed goes back to the
\* channel: it publishes nothing, appends nothing to the hinted handoff and
\* writes neither a history row nor a reinject row.
C14_LostRaceDoesNothing ==
  [][\A h \in JobHandlers :
       /\ (DeleteStep(h) /\ ~RowDeleted(h)) =>
            /\ jpc'[h] = "idle"
            /\ historyTable' = historyTable /\ dueTable' = dueTable
       /\ jpc'[h] \in Working => jtrail'[h] # <<>> /\ jtrail'[h][1] = "claimed"]_vars

\* C14 witness: a handler found its job's row already deleted by another
\* handler and is idle again; the job has its one history row.
C14_Witness ==
  \E h \in JobHandlers :
    /\ jpc[h] = "idle" /\ jtrail[h] = <<"lostRace">>
    /\ Cardinality(historyTable) = 1
    /\ \A g \in JobHandlers : jpc[g] = "idle"

ReinjectStep(h) == jpc[h] = "reinject" /\ jpc'[h] # "reinject"

\* C15: when the publish and the hinted handoff append both fail for a
\* claimed job, the handler puts the row back into the due table with the
\* job's job_id, payload, ctime and due_time, and writes no history row.
C15_ReinjectRestoresRow ==
  [][\A h \in JobHandlers :
       ReinjectStep(h) =>
         /\ jtrail[h] = <<"claimed", "pubErr", "hhErr">>
         /\ jitem[h] \in dueTable'
         /\ historyTable' = historyTable]_vars

PublishStep(h) == jpc[h] = "pub" /\ jpc'[h] # "pub"
HandoffStep(h) == jpc[h] = "hh" /\ jpc'[h] # "hh"
ArchiveStep(h) == jpc[h] = "archive" /\ jpc'[h] # "archive"

\* The part of C16 on publish and hinted handoff: one publish per claimed
\* job, a hinted handoff append exactly after a failed publish.
OnePublishThenHandoff(h) ==
  /\ PublishStep(h) =>
       /\ jtrail[h] = <<"claimed">>
       /\ jpc'[h] = IF InTrail(h, "pubOk")' THEN "archive" ELSE "hh"
  /\ HandoffStep(h) => jtrail[h] = <<"claimed", "pubErr">>
  /\ jpc'[h] \in {"hh", "archive", "reinject"} =>
       TrailCount(jtrail'[h], {"pubOk", "pubErr"}) = 1
  /\ TrailCount(jtrail'[h], {"hhOk", "hhErr"}) = TrailCount(jtrail'[h], {"pubErr"})
        \/ jpc'[h] = "hh"

\* C16 as stated: the publish is attempted once per claimed job, the hinted
\* handoff append if and only if it failed, and a history row is inserted
\* only when the publish succeeded, with etime = the handling time and
\* actor_id = parentId.
C16_ArchiveOnlyOnPublishSuccess ==
  [][\A h \in JobHandlers :
       /\ OnePublishThenHandoff(h)
       /\ (ArchiveStep(h) /\ historyTable' # historyTable) =>
            /\ InTrail(h, "pubOk")
            /\ historyTable' \ historyTable = {HistoryRowOf(h)}]_vars

\* C16 amended: a history row is inserted only when the publish succeeded
\* or, after a failed publish, the hinted handoff append succeeded.
C16_ArchiveOnDelivery ==
  [][\A h \in JobHandlers :
       /\ OnePublishThenHandoff(h)
       /\ ArchiveStep(h) => (InTrail(h, "pubOk") \/ InTrail(h, "hhOk"))
       /\ (historyTable' # historyTable) =>
            \E g \in JobHandlers :
              /\ ArchiveStep(g)
              /\ historyTable' \ historyTable = {HistoryRowOf(g)}]_vars

\* C16 witness: one job is archived after its publish, with the handling
\* time and the controller's id, and another is about to be archived after a
\* failed publish and a hinted handoff append.
C16_Witness ==
  /\ \E hr \in historyTable : hr.actor_id = parentId /\ hr.etime <= clock
  /\ \E h \in JobHandlers :
       jpc[h] = "archive" /\ jtrail[h] = <<"claimed", "pubErr", "hhOk">>

\* ---------------------------------------------------------------- C17
\* waitExit has passed its sweep of the idle set
SweepDone == wpc \in {"waitConns", "done"}

\* the StateIdle callback of c has returned and IDLE is still its latest state
RestsIdle(c) == connState[c] = "idle" /\ idlePc[c] = "none"

\* C17: once shutdown is signalled and waitExit has swept the idle set, every
\* connection resting in IDLE has been closed by its callback or was given a
\* read deadline by the sweep.
C17_IdleClosedOrDeadlined ==
  (shutdownCh /\ SweepDone) =>
     \A c \in Conns : RestsIdle(c) => (c \in sockClosed \/ c \in deadlined)

\* ---------------------------------------------------------------- C18
\* the step in which the StateIdle callback of c takes its branch
IdleApplyStep(c) == idlePc[c] # "none" /\ idlePc'[c] = "none"

\* the step in which c is reported ACTIVE, HIJACKED or CLOSED
LeavesIdleStep(c) ==
  /\ connState'[c] # connState[c]
  /\ connState'[c] \in {"active", "hijacked", "closed"}

IdleSetOnlyIdle == \A c \in idleConns : connState[c] = "idle"

\* C18: a StateIdle callback that saw shutdown closes the connection and
\* leaves it out of the idle set, one that saw none adds it and does not close
\* it; ACTIVE, HIJACKED and CLOSED remove the connection; so the idle set holds
\* only connections whose latest state is IDLE.
C18_IdleSetTracksIdle ==
  [][ /\ \A c \in Conns :
           /\ (IdleApplyStep(c) /\ idlePc[c] = "sawShutdown") =>
                 (c \in sockClosed' /\ c \notin idleConns')
           /\ (IdleApplyStep(c) /\ idlePc[c] = "sawOpen") =>
                 (c \in idleConns' /\ (c \in sockClosed' <=> c \in sockClosed))
           /\ LeavesIdleStep(c) => c \notin idleConns'
      /\ IdleSetOnlyIdle' ]_vars

\* one connection was closed by its StateIdle callback, and another that the
\* sweep found in the idle set has since left it through CLOSED
C18_Witness ==
  \E c, d \in Conns :
     /\ RestsIdle(c) /\ c \in sockClosed /\ c \notin idleConns
     /\ d \in deadlined /\ connState[d] = "closed" /\ d \notin idleConns

\* ---------------------------------------------------------------- C19
SawNewNotClosed == {c \in Conns : connState[c] \in {"new", "active", "idle", "hijacked"}}

\* C19: idleConnsWg counts the connections that were reported NEW and not yet
\* CLOSED, never drops below zero, and every CLOSED connection has sent its
\* remote address on closedConnCh exactly once.
C19_WgCountsOpenConns ==
  /\ idleConnsWg = Cardinality(SawNewNotClosed)
  /\ idleConnsWg >= 0
  /\ \A c \in Conns : emitted[c] = IF connState[c] = "closed" THEN 1 ELSE 0
  /\ \A i \in 1..Len(closedConnCh) : connState[closedConnCh[i]] = "closed"

C19_Witness ==
  \E c, d \in Conns :
     /\ connState[c] = "closed" /\ emitted[c] = 1
     /\ connState[d] = "hijacked" /\ idleConnsWg = 1

\* ---------------------------------------------------------------- C20
InFlight == {c \in Conns : connState[c] \in {"new", "active", "idle"}}

\* C20: activeConnN is the number of connections whose latest state is NEW,
\* ACTIVE or IDLE: raised once at NEW, lowered once by HIJACKED or by CLOSED,
\* never below zero.
C20_ActiveConnCount ==
  /\ activeConnN = Cardinality(InFlight)
  /\ activeConnN >= 0

C20_Witness ==
  \E c, d \in Conns :
     /\ connState[c] = "hijacked" /\ connState[d] = "closed" /\ activeConnN = 0

\* ---------------------------------------------------------------- C21
\* close(this.closed) at the end of waitExit
SubClosed == wpc = "done"

\* the order of waitExit: listeners closed, idle set swept, wait, completion
WaitExitOrder ==
  wpc' # wpc => <<wpc, wpc'>> \in {<<"waiting", "sweep">>, <<"sweep", "waitConns">>,
                                    <<"waitConns", "done">>}

\* C21: after the shutdown signal waitExit closes the listeners, sweeps the
\* idle set, waits on the in-flight counter and, whether or not connections
\* are still open when the timeout expires, eventually closes the completion
\* channel.
C21_WaitExitCompletes ==
  /\ [][WaitExitOrder /\ (wpc = "waiting" /\ wpc' # wpc => shutdownCh)]_vars
  /\ shutdownCh ~> SubClosed

\* waitExit has completed while a connection is still counted in flight
C21_Witness == SubClosed /\ idleConnsWg > 0 /\ shutdownCh

\* ---------------------------------------------------------------- C22
Events(log) == {log[i] : i \in 1..Len(log)}

\* the step in which the gateway stops comp
StopsNow(comp) == Stopped(comp) \notin Events(glog) /\ Stopped(comp) \in Events(glog')

\* the server has closed its Closed channel
CompletionSignalled(srv) == IF srv = "subServer" THEN SubClosed ELSE srv \in svrClosed

BackingStores == {"hh", "pubStore", "subStore", "job"}

\* C22: the gateway deregisters from the registry before it closes shutdownCh,
\* and stops HHQ, the pub store, the sub store and the job store only when the
\* pub, sub and man servers it runs have all signalled completion.
C22_StoresAfterServers ==
  [][ /\ (shutdownCh' /\ ~shutdownCh /\ gpc.ph = "stop" /\ gcfg.registry) =>
            Stopped("registry") \in Events(glog)
      /\ \A st \in BackingStores :
            StopsNow(st) =>
               \A srv \in Servers : Configured(gcfg, srv) => CompletionSignalled(srv) ]_vars

\* all three servers run and the gateway has stopped the last backing store
C22_Witness ==
  /\ gcfg = FullConfig /\ shutdownCh
  /\ \A st \in BackingStores : Stopped(st) \in Events(glog)

\* ---------------------------------------------------------------- C23
\* the components the stated order names
OrderedComponents == {"meta", "manager", "telemetry", "metrics", "pubStore", "hh", "job",
                      "pubServer", "subStore", "subServer", "registry"}

IsStartOfOrdered(ev) == ev[1] = "start" /\ ev[2] \in OrderedComponents
IsStopOfOrdered(ev) == ev[1] = "stop" /\ ev[2] \in OrderedComponents

Names(evs) == [i \in 1..Len(evs) |-> evs[i][2]]
Reverse(sq) == [i \in 1..Len(sq) |-> sq[Len(sq) + 1 - i]]

StartTrail == Names(SelectSeq(glog, IsStartOfOrdered))
StopTrail == Names(SelectSeq(glog, IsStopOfOrdered))

\* C23: when the gateway has gone through Start and its stop sequence, the
\* components were stopped in exactly the reverse of the order in which they
\* were started.
C23_StopReversesStart ==
  gpc.ph = "exited" => StopTrail = Reverse(StartTrail)

\* ---------------------------------------------------------------- C24
\* C24: however many signals are delivered, quiting is closed once, never
\* twice, and the stop sequence is entered at most once.
C24_QuitOnce ==
  /\ quitCloses <= 1
  /\ quiting <=> quitCloses = 1
  /\ sigs >= 1 => quitCloses = 1
  /\ shutdowns <= 1
  /\ gpc.ph \in {"stop", "exited"} => shutdowns = 1

\* two signals were delivered and the stop sequence has run
C24_Witness == sigs = 2 /\ quitCloses = 1 /\ shutdowns = 1 /\ gpc.ph = "exited"

\* ---------------------------------------------------------------- C25
\* what the coord store holds for the slot of the ack
StoredOffset(run) ==
  IF SlotOf(theAck) \in DOMAIN run.zk THEN run.zk[SlotOf(theAck)] ELSE -1

\* C25: with flushes at any point before, between and after the submissions,
\* the coord store of the committer that got the ack twice holds the same
\* offset for the ack's slot as the coord store of the committer that got it
\* once.
C25_AckTwiceSameAsOnce ==
  /\ StoredOffset(twice) = StoredOffset(once)
  /\ StoredOffset(twice) \in {-1, theAck.Offset}

\* the repeated ack was committed a second time and changed nothing
C25_Witness ==
  /\ subs = 2 /\ twice.writes = 2 /\ once.writes = 1
  /\ StoredOffset(twice) = theAck.Offset

\* ---------------------------------------------------------------- C26
RunReturned == rpc = "returned"
HandlersExited == \A h \in JobHandlers : jpc[h] = "exit"

\* C26: once the stop channel is closed, Run returns and every handler has
\* exited, whatever the executor was doing at that moment.
C26_StopEndsExecutor == stopper ~> (RunReturned /\ HandlersExited)

\* ---------------------------------------------------------------- C27
RECURSIVE Doubled(_, _)
Doubled(b, times) == IF times = 0 THEN b ELSE Doubled(2 * b, times - 1)

\* the wait before retry k
BackoffOfRetry(k) ==
  IF Doubled(initialBackoff, k - 1) > maxBackoff THEN maxBackoff
  ELSE Doubled(initialBackoff, k - 1)

\* what the loop's variables say after its latest delivery
BackoffState ==
  /\ bkLast \in {"down", "fail"} =>
        /\ bkSlept = BackoffOfRetry(bkRetries)
        /\ bkSlept <= maxBackoff
        /\ (bkRetries <= 4 => bkSlept = <<200, 400, 800, 1600>>[bkRetries])
  /\ bkLast = "fail" => bkRetries < defaultMaxRetries
  /\ bkLast = "skip" => bkCursor \in bkAudit
  /\ bkAudit \subseteq 1..bkCursor

\* C27: a BrokerDown failure leaves the cursor and the audit log alone; the
\* wait before retry k is 200 ms doubled k-1 times, at most the 31 s cap;
\* another failure skips and audits the block at the 8th attempt; the cursor
\* passes a block only by a successful delivery or such a skip.
C27_BackoffAndSkip ==
  [][ /\ initialBackoff = 200 /\ maxBackoff = 31000 /\ defaultMaxRetries = 8
      /\ BackoffState'
      /\ bkLast' = "down" => (bkCursor' = bkCursor /\ bkAudit' = bkAudit)
      /\ bkCursor' # bkCursor =>
           /\ bkCursor' = bkCursor + 1
           /\ \/ bkLast' = "ok" /\ bkAudit' = bkAudit
              \/ /\ bkLast' = "skip" /\ bkRetries + 1 >= defaultMaxRetries
                 /\ bkAudit' = bkAudit \cup {bkCursor'} ]_vars

\* one block was skipped and audited, the next is parked on BrokerDown with
\* the back-off at its cap
C27_Witness ==
  /\ bkAudit = {1} /\ bkCursor = 1
  /\ bkLast = "down" /\ bkRetries > defaultMaxRetries /\ bkSlept = maxBackoff

\* ---------------------------------------------------------------- C28
\* Stop was the service's latest call and it took effect
StopReturned == hhOp = "stopped"

\* C28: from the return of an effective Stop until the next Start the
\* registry is empty, and no Append that had passed the closed check
\* registers a queue or appends a block.
C28_NothingAfterStop ==
  [][StopReturned' =>
       /\ DOMAIN queues' = {}
       /\ StopReturned => TotalBlocks(disk') = TotalBlocks(disk)]_vars

\* ---------------------------------------------------------------- C29
\* C29: the registry never holds a queue whose creation or Open failed, so an
\* Append of that key creates the queue again.
C29_FailedQueueNotRegistered ==
  \A ct \in DOMAIN queues : queues[ct].open

\* ---------------------------------------------------------------- C30
\* Start or FlushInflights has loaded the queues from disk
QueuesLoaded == hhOp \in {"started", "flushed"}

\* C30: every queue directory found under a configured data directory is
\* opened at that very location.
C30_QueuesOpenedWhereFound ==
  QueuesLoaded =>
     \A loc \in DOMAIN disk :
        disk[loc].blocks > 0 => (loc[2] \in DOMAIN queues /\ queues[loc[2]].dir = loc[1])

\* ---------------------------------------------------------------- C31
\* the committer is inside shutdownOnce.Do, waiting for the counter
CommitterWaiting == cpc = "waitHandlers"

\* a handler has counted itself in and its send finds no room in the channel
HandlerBlocked == \E h \in Handlers : hpc[h] = "entered" /\ Len(ackCh) = AckChCap

\* the final flush has run and ackCommitter has returned
CommitterExited == cpc = "done" /\ ackChClosed /\ lastOp = "final"

\* C31: once the shutdown channel is closed the committer eventually closes
\* the ack channel, runs its final flush and returns, whatever the state at
\* the signal (full channel and blocked handlers included); the runtime
\* panics of C3 and C5, which end the process, are left aside.
C31_ShutdownEndsCommitter == shutdownCh ~> (CommitterExited \/ ~AckAlive)

C31_BlockedAtShutdown == shutdownCh /\ CommitterWaiting /\ HandlerBlocked

\* ---------------------------------------------------------------- C32
\* every connection the server reported has had its last callback
AllTerminal == \A c \in Conns : connState[c] \in {"closed", "hijacked"}

\* C32: once every connection is CLOSED or HIJACKED the in-flight counter
\* idleConnsWg is zero, so WaitTimeout returns without the timeout; a
\* hijacked connection does not keep the counter above zero.
C32_TerminalConnsLeaveWgZero == AllTerminal => idleConnsWg = 0

\* ---------------------------------------------------------------- C33
\* the handler's DELETE affected the row of job id and its turn is not over
Holds(h, id) == jpc[h] \in Working /\ jitem[h].JobId = id

\* the handler's SyncPub or hinted handoff Append of this turn succeeded
Delivered(h) == InTrail(h, "pubOk") \/ InTrail(h, "hhOk")

RowIn(table, id) == \E r \in table : r.JobId = id

JobIds == {r.JobId : r \in JobRows}

\* C33: with several handlers and a job fetched by more than one tick, one
\* insertion of the job's row is claimed by at most one handler's DELETE, and
\* the job is published (or appended to the hinted handoff) at most once per
\* insertion: the row comes back only from the handler that claimed it, and
\* only when it delivered nothing.
C33_OneDeliveryPerInsertion ==
  /\ [](\A id \in JobIds :
          Cardinality({h \in JobHandlers : Holds(h, id)})
            + (IF RowIn(dueTable, id) THEN 1 ELSE 0) <= 1)
  /\ [][/\ \A h \in JobHandlers :
            /\ (DeleteStep(h) /\ RowDeleted(h)) =>
                  /\ RowIn(dueTable, jitem[h].JobId)
                  /\ ~RowIn(dueTable', jitem[h].JobId)
                  /\ \A g \in JobHandlers : ~Holds(g, jitem[h].JobId)
            /\ ((PublishStep(h) \/ HandoffStep(h)) /\ Delivered(h)') =>
                  (Holds(h, jitem[h].JobId) /\ ~Delivered(h))
        /\ \A id \in JobIds :
            (~RowIn(dueTable, id) /\ RowIn(dueTable', id)) =>
               \E h \in JobHandlers :
                  ReinjectStep(h) /\ Holds(h, id) /\ ~Delivered(h)]_vars

\* C33 witness: two handlers received job 7; one lost the race and is idle
\* again, the other claimed the row and has delivered the job.
C33_Witness ==
  \E h, g \in JobHandlers :
     /\ h # g
     /\ jpc[h] = "idle" /\ jtrail[h] = <<"lostRace">>
     /\ Holds(g, 7) /\ Delivered(g)
     /\ historyTable = {} /\ RowIn(dueTable, 8)

\* ---------------------------------------------------------------- C34
\* meta.Default.Stop() or this.zkzone.Close() has run
CoordStoreStopped == \E i \in DOMAIN glog : glog[i] \in {Stopped("meta"), Stopped("zkzone")}

\* C34: the committer's final flush runs while the coordination store is
\* available: the gateway stops the meta store and closes the zk zone only
\* after the ack committer has flushed for the last time and exited.
C34_FlushBeforeCoordStops ==
  /\ [](CoordStoreStopped => cpc = "done" /\ lastOp = "final")
  /\ [][FlushStep => ~CoordStoreStopped /\ ~CoordStoreStopped']_vars

\* C34 witness: the committer flushed an acked offset in its final flush and
\* returned, then the gateway stopped the meta store and closed the zk zone.
C34_Witness ==
  /\ cpc = "done" /\ lastOp = "final" /\ zkCalls # <<>>
  /\ gpc.ph = "exited"
  /\ \E i \in DOMAIN glog : glog[i] = Stopped("zkzone")

====
